---- MODULE Spec2Model ----
(***************************************************************************)
(* Ticker analysis pipeline: the client-side single-flight queue           *)
(* (modules/ticker-analyzer.js) and the backend request handler with its   *)
(* result cache (server.js).                                               *)
(*                                                                         *)
(* JavaScript strings are modelled as sequences of one-character strings,  *)
(* so that trim / toUpperCase / replace are computed, not assumed.         *)
(***************************************************************************)
EXTENDS Integers, Sequences, FiniteSets, TLC

VARIABLES
    now,             \* Date.now() / the timer clock, in ms
    ticks,           \* number of clock advances so far (bounds the run)
    \* ---- TickerAnalyzer (modules/ticker-analyzer.js) ----
    isAnalyzing,     \* this.isAnalyzing
    pendingTickers,  \* this.pendingTickers: FIFO of queued submissions
    inFlight,        \* axios.post calls awaiting their response
    timers,          \* setTimeout(..., 500) callbacks not yet fired
    started,         \* history: submission ids in the order their request started
    nextSid,         \* history: number of external analyze() calls so far
    lastDone,        \* history: what the last completion did
    \* ---- backend (server.js) ----
    cache,           \* the Map `cache`, as its entries in insertion order
    req,             \* the POST /api/analyze handler instances
    useAISummary,    \* process.env.USE_AI_SUMMARY === 'true'
    metrics,         \* sentimentAnalyzer.metrics (cached classifier metrics)
    lastResponse,    \* history: the request most recently answered, and its response
    nreq,            \* history: number of requests received so far (bounds the run)
    lastFetch,       \* history: the latest fetchYahooNews call, what its two
                     \* HTTP requests returned and what it returned
    \* ---- SentimentAnalyzer (modules/sentiment-analyzer.js) ----
    isTrained,       \* this.isTrained
    modelTrained,    \* the classifier process has a trained model
    flaky,           \* the classifier process has started to fail at some calls
    trainCalls,      \* history: number of training passes started so far
    task,            \* the asynchronous calls into the analyzer: 0 is the start-up
                     \* ensureTrained(), the others are sentiment stages of requests
    \* ---- clipboard watcher (main.js) ----
    clipboard,          \* the system clipboard: clipboard.readText()
    watchModeEnabled,   \* watchModeEnabled
    clipboardMonitor,   \* the interval of the watcher: none, or when it fires next
    pollTimers,         \* intervals created by the watcher and not cleared
    lastClipboardText,  \* lastClipboardText
    lastProcessTime,    \* lastProcessTime of the running (or last) interval
    copies,             \* history: number of clipboard changes so far (bounds the run)
    sinceCopy,          \* history: dispatches of the watcher since the clipboard changed
    lastDispatch,       \* history: the latest dispatch of the watcher
    \* ---- ClickDetector (modules/click-detector.js) ----
    isMonitoring,         \* this.isMonitoring
    clickHandler,         \* this.clickHandler: none, or when the interval fires next
    lastClickTime,        \* this.lastClickTime
    lastProcessedTicker,  \* this.lastProcessedTicker
    isExtracting,         \* this.isExtracting
    onTickerDetected,     \* this.onTickerDetected is set
    lastClipboard,        \* lastClipboard of the running (or last) interval
    lastCheckTime,        \* lastCheckTime of the running (or last) interval
    sampleTimers,         \* setTimeout(..., 100) callbacks not yet fired
    probes,               \* getSelectedText() promises not yet settled
    lastSample,           \* history: the latest sample whose timer fired
    lastInvoke,           \* history: the latest invocation of onTickerDetected
    prevInvoke,           \* history: the invocation before it
    \* ---- pure functions ----
    lastCall            \* history: the latest application of a function to an input

analyzerVars == <<isAnalyzing, pendingTickers, inFlight, timers, started, nextSid, lastDone>>
serverVars == <<cache, req, useAISummary, metrics, lastResponse, nreq>>
fetchVars == <<lastFetch>>
classifierVars == <<isTrained, modelTrained, flaky, trainCalls, task>>
watcherVars == <<clipboard, watchModeEnabled, clipboardMonitor, pollTimers,
                 lastClipboardText, lastProcessTime, copies, sinceCopy, lastDispatch>>
callVars == <<lastCall>>
clickVars == <<isMonitoring, clickHandler, lastClickTime, lastProcessedTicker, isExtracting,
               onTickerDetected, lastClipboard, lastCheckTime, sampleTimers, probes,
               lastSample, lastInvoke, prevInvoke>>
vars == <<now, ticks, analyzerVars, serverVars, fetchVars, classifierVars, watcherVars,
          callVars, clickVars>>

----------------------------------------------------------------------------
(* Bounds of the model *)
MaxTicks == 3
MaxSubmit == 4
MaxServerTicks == 1
MaxRequests == 2
MaxFetches == 1
MaxAnalyses == 2
MaxPredicts == 3
MaxCopies == 3
MaxWatchTicks == 12
MaxTextLen == 4
MaxArticles == 4
MaxClickTicks == 8
MaxClickCopies == 2

----------------------------------------------------------------------------
(* JavaScript string primitives *)

Lower == <<"a","b","c","d","e","f","g","h","i","j","k","l","m",
           "n","o","p","q","r","s","t","u","v","w","x","y","z">>
Upper == <<"A","B","C","D","E","F","G","H","I","J","K","L","M",
           "N","O","P","Q","R","S","T","U","V","W","X","Y","Z">>
Digits == {"0","1","2","3","4","5","6","7","8","9"}
WhiteSpace == {" ", "\t", "\n"}

Range(s) == {s[i] : i \in 1..Len(s)}
IsUpperLetter(c) == c \in Range(Upper)
IsAlnumUpper(c) == IsUpperLetter(c) \/ c \in Digits

UpperChar(c) ==
    IF \E j \in 1..Len(Lower) : Lower[j] = c
    THEN Upper[CHOOSE j \in 1..Len(Lower) : Lower[j] = c]
    ELSE c

toUpperCase(s) == [i \in 1..Len(s) |-> UpperChar(s[i])]

\* the positions of s that hold no white space
Inked(s) == {i \in 1..Len(s) : s[i] \notin WhiteSpace}

trimStart(s) ==
    IF Inked(s) = {} THEN <<>>
    ELSE SubSeq(s, CHOOSE i \in Inked(s) : \A j \in Inked(s) : i <= j, Len(s))

trimEnd(s) ==
    IF Inked(s) = {} THEN <<>>
    ELSE SubSeq(s, 1, CHOOSE i \in Inked(s) : \A j \in Inked(s) : j <= i)

trim(s) == trimEnd(trimStart(s))

\* s.replace(/[^A-Z0-9.]/g, '')
stripDisallowed(s) == SelectSeq(s, LAMBDA c : IsAlnumUpper(c) \/ c = ".")

\* /^[A-Z0-9]{1,5}(\.[A-Z])?$/
tickerPattern(s) ==
    \/ Len(s) \in 1..5 /\ \A i \in 1..Len(s) : IsAlnumUpper(s[i])
    \/ /\ Len(s) \in 3..7
       /\ s[Len(s) - 1] = "."
       /\ IsUpperLetter(s[Len(s)])
       /\ \A i \in 1..(Len(s) - 2) : IsAlnumUpper(s[i])

\* /^[A-Z]{1,5}$/
simplePattern(s) == Len(s) \in 1..5 /\ \A i \in 1..Len(s) : IsUpperLetter(s[i])

isValidTicker(text) ==
    IF text = <<>> THEN FALSE
    ELSE LET cleaned == toUpperCase(trim(text))
         IN  tickerPattern(cleaned) \/ simplePattern(cleaned)

----------------------------------------------------------------------------
(* TickerAnalyzer *)

DRAIN_DELAY == 500

\* tickers handed to analyze() by the callers (clipboard watcher, shortcut)
AnalyzeInputs == { <<"A","A","P","L">>, <<"m","s","f","t"," ">> }

\* how an axios.post can end
Outcomes == {"data", "errorField", "ECONNREFUSED", "ETIMEDOUT", "otherError"}

\* the body of analyze(ticker) up to its first await
analyzeBuggyNoGuard(ticker, sid) ==
    /\ isAnalyzing' = TRUE
    /\ inFlight' = Append(inFlight, [ticker |-> toUpperCase(trim(ticker)), sid |-> sid])
    /\ started' = Append(started, sid)
    /\ UNCHANGED pendingTickers

analyze(ticker, sid) ==
    IF isAnalyzing
    THEN /\ pendingTickers' = Append(pendingTickers, [ticker |-> ticker, sid |-> sid])
         /\ UNCHANGED <<isAnalyzing, inFlight, started>>
    ELSE /\ isAnalyzing' = TRUE
         /\ inFlight' = Append(inFlight, [ticker |-> toUpperCase(trim(ticker)), sid |-> sid])
         /\ started' = Append(started, sid)
         /\ UNCHANGED pendingTickers

\* an external caller invokes analyze(ticker)
Submit(ticker) ==
    /\ nextSid < MaxSubmit
    /\ nextSid' = nextSid + 1
    /\ analyze(ticker, nextSid + 1)
    /\ UNCHANGED <<timers, lastDone, now, ticks, serverVars>>

\* the finally block of analyze()
finallyKeepsBusyOnFailure(outcome) ==
    /\ isAnalyzing' = (outcome # "data")
    /\ IF Len(pendingTickers) > 0
       THEN /\ pendingTickers' = Tail(pendingTickers)
            /\ timers' = Append(timers, [ticker |-> Head(pendingTickers).ticker,
                                         sid |-> Head(pendingTickers).sid,
                                         due |-> now + DRAIN_DELAY])
       ELSE UNCHANGED <<pendingTickers, timers>>

finally(outcome) ==
    /\ isAnalyzing' = FALSE
    /\ IF Len(pendingTickers) > 0
       THEN /\ pendingTickers' = Tail(pendingTickers)
            /\ timers' = Append(timers, [ticker |-> Head(pendingTickers).ticker,
                                         sid |-> Head(pendingTickers).sid,
                                         due |-> now + DRAIN_DELAY])
       ELSE UNCHANGED <<pendingTickers, timers>>

\* a request that times out is dropped without a word
callbacksSilentOnTimeout(tickerUpper, outcome) ==
    CASE outcome = "data" -> <<[cb |-> "onAnalysisComplete", arg |-> tickerUpper]>>
      [] outcome = "ETIMEDOUT" -> <<>>
      [] OTHER -> <<[cb |-> "onError", arg |-> outcome]>>

\* lines 58-93: the callbacks analyze() invokes once its request has ended,
\* with the ticker or with what the error is made from; main.js sets both
callbacks(tickerUpper, outcome) ==
    IF outcome = "data" THEN <<[cb |-> "onAnalysisComplete", arg |-> tickerUpper]>>
    ELSE <<[cb |-> "onError", arg |-> outcome]>>

\* the response (or failure) of an outstanding axios.post arrives
Complete(k, outcome) ==
    /\ k \in 1..Len(inFlight)
    /\ inFlight' = SubSeq(inFlight, 1, k - 1) \o SubSeq(inFlight, k + 1, Len(inFlight))
    /\ finally(outcome)
    /\ lastDone' = [sid |-> inFlight[k].sid, outcome |-> outcome,
                    next |-> IF Len(pendingTickers) > 0 THEN Head(pendingTickers).sid ELSE 0,
                    at |-> now, callbacks |-> callbacks(inFlight[k].ticker, outcome)]
    /\ UNCHANGED <<started, nextSid, now, ticks, serverVars>>

\* a drain timer fires: () => this.analyze(nextTicker)
TimerFire ==
    /\ timers # <<>>
    /\ now >= Head(timers).due
    /\ timers' = Tail(timers)
    /\ analyze(Head(timers).ticker, Head(timers).sid)
    /\ UNCHANGED <<nextSid, lastDone, now, ticks, serverVars>>

\* a drain timer whose ticker is forgotten when a request is in flight
TimerElapsesDropsBusy ==
    /\ timers # <<>>
    /\ now' = IF now >= Head(timers).due THEN now ELSE Head(timers).due
    /\ timers' = Tail(timers)
    /\ IF isAnalyzing
       THEN UNCHANGED <<isAnalyzing, pendingTickers, inFlight, started>>
       ELSE analyze(Head(timers).ticker, Head(timers).sid)
    /\ UNCHANGED <<nextSid, lastDone, ticks, serverVars>>

\* the delay of the oldest drain timer elapses, if it has not yet, and the
\* timer fires: () => this.analyze(nextTicker)
TimerElapses ==
    /\ timers # <<>>
    /\ now' = IF now >= Head(timers).due THEN now ELSE Head(timers).due
    /\ timers' = Tail(timers)
    /\ analyze(Head(timers).ticker, Head(timers).sid)
    /\ UNCHANGED <<nextSid, lastDone, ticks, serverVars>>

\* time passes on the client
ClientDeltas == {1, DRAIN_DELAY - 1}

Tick(d, max) ==
    /\ ticks < max
    /\ ticks' = ticks + 1
    /\ now' = now + d

ClientTick ==
    /\ \E d \in ClientDeltas : Tick(d, MaxTicks)
    /\ UNCHANGED <<analyzerVars, serverVars>>

----------------------------------------------------------------------------
(* Backend: result cache (server.js) *)

CACHE_TTL == 300000
SWEEP_INTERVAL == 60000

\* a nullable JavaScript value v is <<>> (null / undefined) or <<v>>
Null == <<>>

\* Map.prototype.has / get / delete / set on the entries in insertion order
mapHas(m, k) == \E i \in 1..Len(m) : m[i].key = k
mapGet(m, k) == m[CHOOSE i \in 1..Len(m) : m[i].key = k]
mapDelete(m, k) == SelectSeq(m, LAMBDA e : e.key # k)
mapSet(m, k, e) ==
    IF mapHas(m, k)
    THEN [i \in 1..Len(m) |-> IF m[i].key = k THEN e ELSE m[i]]
    ELSE Append(m, e)

\* getCachedResult: the value returned
cachedDataIgnoringAge(c, ticker, t) ==
    IF mapHas(c, ticker) THEN <<mapGet(c, ticker).data>> ELSE Null

getCachedResult(c, ticker, t) ==
    IF mapHas(c, ticker) /\ (t - mapGet(c, ticker).timestamp) < CACHE_TTL
    THEN <<mapGet(c, ticker).data>>
    ELSE Null

\* getCachedResult: the cache it leaves behind
cacheAfterGetRefreshing(c, ticker, t) ==
    IF mapHas(c, ticker)
    THEN mapSet(c, ticker, [mapGet(c, ticker) EXCEPT !.timestamp = t])
    ELSE c

cacheAfterGet(c, ticker, t) ==
    IF mapHas(c, ticker) /\ ~((t - mapGet(c, ticker).timestamp) < CACHE_TTL)
    THEN mapDelete(c, ticker)
    ELSE c

\* an entry is { data, timestamp } under its key; `by` is history: the request
\* text whose handler stored it
setCachedResultAppends(c, ticker, data, t) ==
    Append(c, [key |-> ticker, data |-> data, timestamp |-> t, by |-> <<>>])

setCachedResultSkipsEmpty(c, ticker, data, t) ==
    IF data.articles = <<>> THEN c
    ELSE mapSet(c, ticker, [key |-> ticker, data |-> data, timestamp |-> t, by |-> <<>>])

setCachedResult(c, ticker, data, t) ==
    mapSet(c, ticker, [key |-> ticker, data |-> data, timestamp |-> t, by |-> <<>>])

writtenBy(c, ticker, raw) ==
    [i \in 1..Len(c) |-> IF c[i].key = ticker /\ c[i].by = <<>>
                         THEN [c[i] EXCEPT !.by = raw.text] ELSE c[i]]

\* the test of the sweep is the wrong way round
sweepKeepsExpired(c, t) == SelectSeq(c, LAMBDA e : t - e.timestamp >= CACHE_TTL)

\* the body of the setInterval callback
sweep(c, t) == SelectSeq(c, LAMBDA e : ~(t - e.timestamp >= CACHE_TTL))

----------------------------------------------------------------------------
(* Backend: news retrieval and summary (server.js) *)

\* a Date object: its time value, or Invalid Date (time value NaN)
DateOf(ms) == [valid |-> TRUE, time |-> ms]
InvalidDate == [valid |-> FALSE, time |-> 0]

\* the date text of a feed item or page element: absent, a text Date can
\* parse, a text it cannot parse, or (on the page) a relative age "N min ago"
NoDate == [kind |-> "none", ms |-> 0]
Abs(ms) == [kind |-> "abs", ms |-> ms]
BadDate == [kind |-> "bad", ms |-> 0]
MinutesAgo(n) == [kind |-> "rel", ms |-> n * 60000]

\* the comparator (a, b) => b.dateObj - a.dateObj as sort sees it: the sign of
\* the difference, a NaN difference counting as 0
compareFn(a, b) ==
    IF ~a.dateObj.valid \/ ~b.dateObj.valid THEN 0
    ELSE IF b.dateObj.time < a.dateObj.time THEN -1
    ELSE IF b.dateObj.time > a.dateObj.time THEN 1
    ELSE 0

\* stable sort, newest first: articles.sort((a, b) => b.dateObj - a.dateObj)
RECURSIVE insertDesc(_, _)
insertDesc(sorted, a) ==
    IF sorted = <<>> THEN <<a>>
    ELSE IF compareFn(Head(sorted), a) <= 0
         THEN <<Head(sorted)>> \o insertDesc(Tail(sorted), a)
         ELSE <<a>> \o sorted

RECURSIVE sortDesc(_)
sortDesc(as) ==
    IF as = <<>> THEN <<>>
    ELSE insertDesc(sortDesc(SubSeq(as, 1, Len(as) - 1)), as[Len(as)])

\* lines 56-74: the article pushed for a feed item. new Date(pubDate) does not
\* throw on a text it cannot parse, it yields Invalid Date
feedArticle(item, t) ==
    [title |-> item.title, link |-> item.link,
     dateObj |-> CASE item.date.kind = "none" -> DateOf(t)
                   [] item.date.kind = "bad" -> InvalidDate
                   [] OTHER -> DateOf(item.date.ms)]

\* lines 123-161: the article pushed for a page element
pageArticle(item, t) ==
    [title |-> item.title, link |-> item.link,
     dateObj |-> CASE item.date.kind = "rel" -> DateOf(t - item.date.ms)
                   [] item.date.kind = "abs" -> DateOf(item.date.ms)
                   [] OTHER -> DateOf(t)]

\* rss$('item').each(...): keep the items that have a title and a link
RECURSIVE parseFeed(_, _)
parseFeed(items, t) ==
    IF items = <<>> THEN <<>>
    ELSE (IF Head(items).title # "" /\ Head(items).link # ""
          THEN <<feedArticle(Head(items), t)>> ELSE <<>>) \o parseFeed(Tail(items), t)

\* $(selector).each(...): push the elements whose title is not yet present
RECURSIVE pushUnique(_, _, _)
pushUnique(articles, elems, t) ==
    IF elems = <<>> THEN articles
    ELSE LET e == Head(elems)
             keep == e.title # "" /\ e.link # ""
                     /\ ~\E i \in 1..Len(articles) : articles[i].title = e.title
         IN  pushUnique(IF keep THEN Append(articles, pageArticle(e, t)) ELSE articles,
                        Tail(elems), t)

\* for (const selector of selectors) { ...; if (articles.length > 0) break; }
RECURSIVE scrapeSelectors(_, _, _)
scrapeSelectors(articles, selectors, t) ==
    IF selectors = <<>> THEN articles
    ELSE LET got == pushUnique(articles, Head(selectors), t)
         IN  IF Len(got) > 0 THEN got ELSE scrapeSelectors(got, Tail(selectors), t)

\* the primary strategy, lines 36-92: the articles collected when control reaches
\* the fallback. `articles` is a const binding, so the re-assignment on line 80
\* throws after the in-place sort and the catch block falls through.
afterRss(out, t) ==
    IF out.ok THEN sortDesc(parseFeed(out.items, t)) ELSE <<>>

\* the fallback strategy, lines 95-187: what fetchYahooNews returns
afterScrape(articles, out, t) ==
    IF out.ok THEN sortDesc(scrapeSelectors(articles, out.selectors, t)) ELSE articles

FirstN(s, n) == SubSeq(s, 1, IF Len(s) < n THEN Len(s) ELSE n)

\* the titles of all the articles are put into the sentence
generateFastSummaryOfAll(articles) ==
    IF Len(articles) = 0
    THEN <<"No recent news articles found for this ticker.">>
    ELSE <<"Recent news highlights: ">>
         \o [i \in 1..Len(articles) |-> articles[i].title]
         \o <<". Check the articles below for more details.">>

\* generateFastSummary: the text as the pieces it is concatenated from
generateFastSummary(articles) ==
    IF Len(articles) = 0
    THEN <<"No recent news articles found for this ticker.">>
    ELSE <<"Recent news highlights: ">>
         \o [i \in 1..Len(FirstN(articles, 3)) |-> articles[i].title]
         \o <<". Check the articles below for more details.">>

MIN_NEWS_TEXT == 50

\* lines 209-212: the length of the numbered list made of the first 5 titles,
\* "1. title\n2. title..."
RECURSIVE newsTextLength(_, _)
newsTextLength(articles, idx) ==
    IF idx > Len(FirstN(articles, 5)) THEN 0
    ELSE Len(ToString(idx)) + 2 + Len(articles[idx].title)
         + (IF idx < Len(FirstN(articles, 5)) THEN 1 ELSE 0)
         + newsTextLength(articles, idx + 1)

\* line 215: the text is long enough for the external service
callsExternalSummary(articles) == ~(newsTextLength(articles, 1) < MIN_NEWS_TEXT)

\* ways hf.summarization can settle: it throws, or resolves to a value of one
\* of the shapes lines 236-247 tell apart, carrying a text
AIOutcomes ==
    { [shape |-> "throws", text |-> ""],
      [shape |-> "object", text |-> "AI summary text"] }

\* every way hf.summarization can settle: it throws (error, timeout), or
\* resolves to nothing, to a string, to { summary_text }, to
\* [{ summary_text }], to [string] or to something else, with a text that may
\* be empty
AIResponses ==
    { [shape |-> "throws", text |-> ""], [shape |-> "null", text |-> ""] }
       \cup [shape : {"string", "object", "array", "stringArray", "other"},
             text : {"AI summary text", ""}]

\* the response is returned as it came, and a failure of the call as no text
summarizeArticlesWithAIUnguarded(articles, out) ==
    IF out.shape \in {"throws", "null"} THEN <<>> ELSE <<out.text>>

\* summarizeArticlesWithAI, lines 219-254, given how the external call settled;
\* reading a field of a missing response throws inside the try
summarizeArticlesWithAI(articles, out) ==
    IF out.shape \in {"throws", "null"} THEN generateFastSummary(articles)
    ELSE LET summaryText ==
                 IF out.shape \in {"string", "object", "array", "stringArray"}
                 THEN out.text
                 ELSE "Summary generated successfully."
         IN  IF summaryText = "" THEN <<"Summary generated successfully.">>
             ELSE <<summaryText>>

noNewsSummary(ticker) ==
    <<"No recent news articles found for ", ticker,
      ". The ticker may be invalid or there may be no recent news. Please verify the ticker symbol is correct.">>

----------------------------------------------------------------------------
(* Backend: POST /api/analyze *)

Str(s) == [kind |-> "string", text |-> s]
Undefined == [kind |-> "undefined", text |-> <<>>]
NotAString == [kind |-> "number", text |-> <<>>]

\* request bodies { ticker: ... } of the pipeline runs: a missing ticker, a
\* ticker that is no string, and two symbols
RawInputs ==
    { Undefined, NotAString, Str(<<"A","A","P","L">>), Str(<<"b","r","k",".","b">>) }

\* request bodies of the normalisation runs: spellings of one symbol, texts
\* that clean to nothing, and texts that are no ticker
SpellingInputs ==
    { Undefined, Str(<<>>), Str(<<" ", "\t">>), Str(<<"$", "-">>),
      Str(<<"A","A","P","L">>), Str(<<"a","a","p","l"," ">>),
      Str(<<" ","A","a","$","p","L","\n">>),
      Str(<<"T","O","O","L","O","N","G">>), Str(<<"a",".","b",".","c">>) }

\* handler instances: one per request that can be open at a time
Slots == 1..MaxRequests

\* what the two HTTP requests of fetchYahooNews can return
Headline == "Quarterly earnings beat forecasts as cloud revenue climbs"
Item(title, date) == [title |-> title, link |-> "http://l", date |-> date]
RssOutcomes ==
    { [ok |-> FALSE, items |-> <<>>],
      [ok |-> TRUE, items |-> <<Item("", Abs(7)), Item(Headline, Abs(9))>>] }
ScrapeOutcomes ==
    { [ok |-> FALSE, selectors |-> <<>>],
      [ok |-> TRUE, selectors |-> << <<>>, <<Item(Headline, Abs(9))>>, <<>>, <<>> >>] }

\* how sentimentAnalyzer.analyzeArticles / getMetrics can settle
Verdict == [sentiment |-> "positive", confidence |-> 1]
Metrics == [accuracy |-> 1, precision |-> 1, recall |-> 1, f1 |-> 1]
SentimentOutcomes == { [ok |-> TRUE], [ok |-> FALSE] }

\* line 301
cleanTickerNoUpper(text) == stripDisallowed(trim(text))
cleanTicker(text) == stripDisallowed(toUpperCase(trim(text)))

\* line 303: !cleanTicker || cleanTicker.length === 0
acceptsAnything(ct) == FALSE
isEmptyTicker(ct) == ct = <<>> \/ Len(ct) = 0

\* a handler instance: its position and its locals; io is the history of the
\* effects it has had (cache lookup, the two fetches, summary, sentiment and
\* metrics calls, cache write)
Idle == [pc |-> "idle", raw |-> Undefined, cleanTicker |-> <<>>, articles |-> <<>>,
         summary |-> <<>>, sentimentResult |-> Null, io |-> <<>>]

NoResponse == [raw |-> Undefined, cleanTicker |-> <<>>, io |-> <<>>, status |-> 0,
               body |-> [error |-> "none"]]

\* res.status(status).json(body): the handler instance ends
Respond(i, r, status, body) ==
    /\ req' = [req EXCEPT ![i] = Idle]
    /\ lastResponse' = [raw |-> r.raw, cleanTicker |-> r.cleanTicker, io |-> r.io,
                        status |-> status, body |-> body]

\* history of a cache write; "replace" notes that it replaces an entry
Written(ticker) == IF mapHas(cache, ticker) THEN <<"replace", "write">> ELSE <<"write">>

\* the effect e is in the history io
Did(io, e) == \E n \in 1..Len(io) : io[n] = e

\* lines 373-384: assemble, cache, respond
Assemble(i, r, sentiment, m) ==
    LET result == [ticker |-> r.cleanTicker, summary |-> r.summary,
                   articles |-> r.articles, sentiment |-> sentiment, metrics |-> m]
    IN  /\ cache' = writtenBy(setCachedResult(cache, r.cleanTicker, result, now),
                              r.cleanTicker, r.raw)
        /\ Respond(i, [r EXCEPT !.io = @ \o Written(r.cleanTicker)], 200, result)

\* the verdict is cached as soon as it is known, before getMetrics settles
AfterSentimentCachesEarly(i, r, sentiment, ms) ==
    IF ms # Null
    THEN Assemble(i, r, sentiment, ms)
    ELSE /\ req' = [req EXCEPT ![i] = [r EXCEPT !.pc = "metrics",
                                                !.sentimentResult = sentiment,
                                                !.io = Append(@, "metrics")]]
         /\ cache' = setCachedResult(cache, r.cleanTicker,
                                     [ticker |-> r.cleanTicker, summary |-> r.summary,
                                      articles |-> r.articles, sentiment |-> sentiment,
                                      metrics |-> Null], now)
         /\ UNCHANGED lastResponse

\* lines 360-367: getMetrics() answers from this.metrics when it is set
AfterSentiment(i, r, sentiment, ms) ==
    IF ms # Null
    THEN Assemble(i, r, sentiment, ms)
    ELSE /\ req' = [req EXCEPT ![i] = [r EXCEPT !.pc = "metrics",
                                                !.sentimentResult = sentiment,
                                                !.io = Append(@, "metrics")]]
         /\ UNCHANGED <<cache, lastResponse>>

\* lines 292-319: validation, cache check, start of the fetch
Receive(i, raw) ==
    /\ req[i].pc = "idle"
    /\ nreq < MaxRequests
    /\ nreq' = nreq + 1
    /\ LET r == [Idle EXCEPT !.raw = raw] IN
       IF raw.kind = "undefined" \/ (raw.kind = "string" /\ raw.text = <<>>)
       THEN /\ Respond(i, r, 400, [error |-> "Ticker symbol is required"])
            /\ UNCHANGED cache
       ELSE IF raw.kind # "string"
       THEN /\ Respond(i, r, 500, [error |-> "ticker.trim is not a function"])
            /\ UNCHANGED cache
       ELSE LET ct == cleanTicker(raw.text) IN
            IF isEmptyTicker(ct)
            THEN /\ Respond(i, r, 400, [error |-> "Invalid ticker symbol"])
                 /\ UNCHANGED cache
            ELSE LET cachedResult == getCachedResult(cache, ct, now)
                     r2 == [r EXCEPT !.cleanTicker = ct, !.io = <<"lookup">>]
                 IN  /\ cache' = cacheAfterGet(cache, ct, now)
                     /\ IF cachedResult # Null
                        THEN Respond(i, r2, 200, cachedResult[1])
                        ELSE /\ req' = [req EXCEPT ![i] = [r2 EXCEPT !.pc = "rss", !.io = Append(@, "rss")]]
                             /\ UNCHANGED lastResponse
    /\ UNCHANGED <<useAISummary, metrics, now, ticks, analyzerVars>>

\* a failed feed request is issued again instead of falling back
RssDoneRetries(i, out) ==
    /\ req[i].pc = "rss"
    /\ req' = [req EXCEPT ![i] = IF out.ok
                                 THEN [@ EXCEPT !.pc = "scrape",
                                                !.articles = afterRss(out, now),
                                                !.io = Append(@, "scrape")]
                                 ELSE [@ EXCEPT !.io = Append(@, "rss")]]
    /\ UNCHANGED <<cache, useAISummary, metrics, lastResponse, nreq, now, ticks, analyzerVars>>

\* fetchYahooNews, lines 36-97: the feed request settles, the page request starts
RssDone(i, out) ==
    /\ req[i].pc = "rss"
    /\ req' = [req EXCEPT ![i] = [@ EXCEPT !.pc = "scrape", !.articles = afterRss(out, now),
                                           !.io = Append(@, "scrape")]]
    /\ UNCHANGED <<cache, useAISummary, metrics, lastResponse, nreq, now, ticks, analyzerVars>>

\* a failed page request is rethrown and reaches the handler's catch, line 320
ScrapeDoneRethrows(i, out) ==
    /\ req[i].pc = "scrape"
    /\ LET articles == afterScrape(req[i].articles, out, now)
           r == [req[i] EXCEPT !.articles = articles]
       IN  IF ~out.ok
           THEN /\ Respond(i, r, 500, [error |-> "Failed to fetch news"])
                /\ UNCHANGED cache
           ELSE IF Len(articles) = 0
           THEN LET result == [ticker |-> r.cleanTicker,
                               summary |-> noNewsSummary(r.cleanTicker),
                               articles |-> <<>>]
                IN  /\ cache' = writtenBy(setCachedResult(cache, r.cleanTicker, result, now),
                                          r.cleanTicker, r.raw)
                    /\ Respond(i, [r EXCEPT !.io = @ \o Written(r.cleanTicker)], 200, result)
           ELSE /\ req' = [req EXCEPT ![i] =
                             [r EXCEPT !.pc = "sentiment",
                                       !.summary = generateFastSummary(articles),
                                       !.io = @ \o <<"summary", "sentiment">>]]
                /\ UNCHANGED <<cache, lastResponse>>
    /\ UNCHANGED <<useAISummary, metrics, nreq, now, ticks, analyzerVars>>

\* fetchYahooNews, lines 99-188, then the handler, lines 327-365
ScrapeDone(i, out) ==
    /\ req[i].pc = "scrape"
    /\ LET articles == afterScrape(req[i].articles, out, now)
           r == [req[i] EXCEPT !.articles = articles]
       IN  IF Len(articles) = 0
           THEN LET result == [ticker |-> r.cleanTicker,
                               summary |-> noNewsSummary(r.cleanTicker),
                               articles |-> <<>>]
                IN  /\ cache' = writtenBy(setCachedResult(cache, r.cleanTicker, result, now),
                                          r.cleanTicker, r.raw)
                    /\ Respond(i, [r EXCEPT !.io = @ \o Written(r.cleanTicker)], 200, result)
           ELSE /\ IF useAISummary /\ callsExternalSummary(articles)
                   THEN req' = [req EXCEPT ![i] = [r EXCEPT !.pc = "summary",
                                                            !.io = Append(@, "summary")]]
                   ELSE req' = [req EXCEPT ![i] =
                                  [r EXCEPT !.pc = "sentiment",
                                            !.summary = generateFastSummary(articles),
                                            !.io = @ \o <<"summary", "sentiment">>]]
                /\ UNCHANGED <<cache, lastResponse>>
    /\ UNCHANGED <<useAISummary, metrics, nreq, now, ticks, analyzerVars>>

\* lines 346-353: the AI summary settles, the sentiment call starts
SummaryDone(i, out) ==
    /\ req[i].pc = "summary"
    /\ req' = [req EXCEPT ![i] = [@ EXCEPT !.pc = "sentiment",
                                           !.summary = summarizeArticlesWithAI(req[i].articles, out),
                                           !.io = Append(@, "sentiment")]]
    /\ UNCHANGED <<cache, useAISummary, metrics, lastResponse, nreq, now, ticks, analyzerVars>>

\* a rejected analyzeArticles reaches the outer catch, line 385
SentimentDoneAborts(i, out) ==
    /\ req[i].pc = "sentiment"
    /\ UNCHANGED metrics
    /\ IF out.ok
       THEN AfterSentiment(i, req[i], <<Verdict>>, metrics)
       ELSE /\ Respond(i, req[i], 500, [error |-> "An unexpected error occurred"])
            /\ UNCHANGED cache
    /\ UNCHANGED <<useAISummary, nreq, now, ticks, analyzerVars>>

\* lines 363-371: analyzeArticles settles
SentimentDone(i, out) ==
    /\ req[i].pc = "sentiment"
    /\ UNCHANGED metrics
    /\ IF out.ok
       THEN AfterSentiment(i, req[i], <<Verdict>>, metrics)
       ELSE Assemble(i, req[i], Null, Null)
    /\ UNCHANGED <<useAISummary, nreq, now, ticks, analyzerVars>>

\* lines 366-371: getMetrics settles
MetricsDone(i, ok) ==
    /\ req[i].pc = "metrics"
    /\ metrics' = IF ok THEN <<Metrics>> ELSE metrics
    /\ Assemble(i, req[i], req[i].sentimentResult, IF ok THEN <<Metrics>> ELSE Null)
    /\ UNCHANGED <<useAISummary, nreq, now, ticks, analyzerVars>>

\* lines 281-289: the cleanup interval fires
Sweep ==
    /\ now >= SWEEP_INTERVAL
    /\ cache' = sweep(cache, now)
    /\ UNCHANGED <<req, useAISummary, metrics, lastResponse, nreq, now, ticks, analyzerVars>>

\* lines 396-398: GET /health
Health ==
    /\ nreq < MaxRequests
    /\ nreq' = nreq + 1
    /\ lastResponse' = [raw |-> Undefined, cleanTicker |-> <<>>, io |-> <<"health">>,
                        status |-> 200, body |-> [status |-> "ok"]]
    /\ UNCHANGED <<cache, req, useAISummary, metrics, now, ticks, analyzerVars>>

\* the test endpoint stores what it fetched
TestTickerCaches(ticker, rss, scrape) ==
    /\ nreq < MaxRequests
    /\ nreq' = nreq + 1
    /\ LET articles == afterScrape(afterRss(rss, now), scrape, now)
           body == [ticker |-> ticker, articleCount |-> Len(articles),
                    articles |-> FirstN(articles, 3), message |-> "Test successful"]
       IN  /\ lastResponse' = [raw |-> Str(ticker), cleanTicker |-> <<>>,
                               io |-> <<"test", "rss", "scrape">>, status |-> 200,
                               body |-> body]
           /\ cache' = setCachedResult(cache, ticker, body, now)
    /\ UNCHANGED <<req, useAISummary, metrics, now, ticks, analyzerVars>>

\* lines 401-416: GET /api/test/:ticker, given what the two HTTP requests of
\* fetchYahooNews return
TestTicker(ticker, rss, scrape) ==
    /\ nreq < MaxRequests
    /\ nreq' = nreq + 1
    /\ LET articles == afterScrape(afterRss(rss, now), scrape, now)
           body == [ticker |-> ticker, articleCount |-> Len(articles),
                    articles |-> FirstN(articles, 3), message |-> "Test successful"]
       IN  /\ lastResponse' = [raw |-> Str(ticker), cleanTicker |-> <<>>,
                               io |-> <<"test", "rss", "scrape">>, status |-> 200,
                               body |-> body]
           /\ cache' = cache
    /\ UNCHANGED <<req, useAISummary, metrics, now, ticks, analyzerVars>>

\* the clock advances to just before, or exactly to, the expiry of an entry written now
ServerDeltas == {CACHE_TTL - 1, CACHE_TTL}

ServerTick ==
    /\ \E d \in ServerDeltas : Tick(d, MaxServerTicks)
    /\ UNCHANGED <<analyzerVars, serverVars>>

----------------------------------------------------------------------------
(* fetchYahooNews observed from POST /api/analyze: one request at a time, over
   feeds and pages that exercise every branch of the two strategies *)

Titles == <<"n01", "n02", "n03", "n04", "n05", "n06", "n07", "n08", "n09", "n10",
            "n11", "n12">>

\* 12 well-formed entries with distinct titles and distinct valid dates, all
\* before the server started, in no particular order
TwelveItems == [k \in 1..12 |-> Item(Titles[k], Abs(0 - 1000 * ((k * 5) % 13)))]

FeedOutcomes ==
    { [ok |-> FALSE, items |-> <<>>],
      [ok |-> TRUE, items |-> <<>>],
      [ok |-> TRUE, items |-> TwelveItems],
      [ok |-> TRUE, items |-> <<Item(Headline, Abs(0 - 3000)), Item("Other", Abs(0 - 2000)),
                                Item(Headline, Abs(0 - 1000))>>],
      [ok |-> TRUE, items |-> <<Item("Dated", Abs(0 - 5000)), Item("Undated", BadDate)>>],
      [ok |-> TRUE, items |-> <<Item("", Abs(0 - 1)), Item("Old", Abs(0 - 9000)),
                                Item("Fresh", NoDate)>>] }

PageOutcomes ==
    { [ok |-> FALSE, selectors |-> <<>>],
      [ok |-> TRUE, selectors |-> << <<>>, <<>>, <<>>, <<>> >>],
      [ok |-> TRUE, selectors |->
          << <<Item(Headline, MinutesAgo(5)), Item("Page only", NoDate),
               Item("Page only", Abs(0 - 100))>>,
             <<Item("Second selector", NoDate)>>, <<>>, <<>> >>],
      [ok |-> TRUE, selectors |->
          << <<>>, <<Item("Second selector", BadDate), Item(Headline, Abs(0 - 700))>>,
             <<>>, <<>> >>] }

\* no fetch yet
NoFetch == [done |-> FALSE, feed |-> [ok |-> FALSE, items |-> <<>>],
            page |-> [ok |-> FALSE, selectors |-> <<>>], fedAt |-> 0,
            collected |-> <<>>, result |-> <<>>, io |-> <<>>]

\* the handler instance i after a step: its history so far, and the articles
\* fetchYahooNews handed to it
LogAfter(i) == IF req'[i].pc = "idle" THEN lastResponse'.io ELSE req'[i].io
ArticlesAfter(i) ==
    IF req'[i].pc # "idle" THEN req'[i].articles
    ELSE IF lastResponse'.status = 200 THEN lastResponse'.body.articles ELSE <<>>

\* a request whose fetch this history follows
FetchReceive(raw) ==
    /\ nreq < MaxFetches
    /\ Receive(1, raw)
    /\ UNCHANGED <<lastFetch, classifierVars, watcherVars, callVars, clickVars>>

\* time passes before the first request arrives
IdleTick ==
    /\ nreq = 0
    /\ ServerTick
    /\ UNCHANGED <<fetchVars, classifierVars, watcherVars, callVars, clickVars>>

\* the feed request of fetchYahooNews settles
FeedDone(out) ==
    /\ RssDone(1, out)
    /\ lastFetch' = [NoFetch EXCEPT !.feed = out, !.fedAt = now,
                                    !.collected = req'[1].articles, !.io = LogAfter(1)]
    /\ UNCHANGED <<classifierVars, watcherVars, callVars, clickVars>>

\* the page request settles and fetchYahooNews returns
PageDone(out) ==
    /\ ScrapeDone(1, out)
    /\ lastFetch' = [lastFetch EXCEPT !.done = TRUE, !.page = out,
                                      !.result = ArticlesAfter(1), !.io = LogAfter(1)]
    /\ UNCHANGED <<classifierVars, watcherVars, callVars, clickVars>>


----------------------------------------------------------------------------
(* SentimentAnalyzer (modules/sentiment-analyzer.js) and the classifier process
   it runs with exec. A task is one asynchronous call chain; each await of an
   exec is a step. *)

Tasks == 0..MaxAnalyses
Analyses == 1..MaxAnalyses

\* the classifier process: it answers a predict or metrics command with a
\* result once it has a trained model and with { error } before
Classifier(trained) == IF trained THEN "ok" ELSE "errorResult"

\* ways `python3 ... predict` / `metrics` can settle: a result, a result with
\* an error field, or a rejection / unparsable output whose message does or
\* does not contain 'not trained'
ExecResults ==
    {Classifier(modelTrained)}
       \cup (IF flaky THEN {"errorResult", "threwNotTrained", "threwOther"} ELSE {})

\* ways `python3 ... train` can settle: { success, metrics }, or a failure
\* that train() rethrows
TrainResults == {"success"} \cup (IF flaky THEN {"failed"} ELSE {})

NewTask == [pc |-> "idle", trains |-> 0, predicts |-> 0, okPredicts |-> 0,
            result |-> "none", error |-> "none"]

\* line 90: the part of the description that is analysed
FIRST_PARA == 200

\* lines 86-92: the text of one article, `${title} ${firstPara}`.trim(); a
\* missing title or description counts as ''
textOf(article) ==
    trim(article.title \o <<" ">> \o FirstN(article.description, FIRST_PARA))

\* lines 86-92: the texts of the articles, the empty ones dropped
texts(articles) ==
    SelectSeq([i \in 1..Len(articles) |-> textOf(articles[i])], LAMBDA t : Len(t) > 0)

Spaces(n) == [i \in 1..n |-> " "]
Article(title, description) == [title |-> title, description |-> description]
TitledArticle == Article(<<"U", "p">>, <<>>)

\* article lists passed to analyzeArticles: none (or no list), articles
\* without text, with blank text, with a description whose text starts at or
\* after the end of the first paragraph, and lists with some text
ArticleInputs ==
    { <<>>,
      <<Article(<<>>, <<>>)>>,
      <<Article(<<" ", " ">>, <<"\t">>), Article(<<>>, <<"\n">>)>>,
      <<Article(<<>>, Spaces(FIRST_PARA) \o <<"x">>)>>,
      <<Article(<<>>, Spaces(FIRST_PARA - 1) \o <<"x">>)>>,
      <<Article(<<>>, <<>>), TitledArticle>>,
      <<TitledArticle>> }

\* line 366 (and 140): getMetrics() answers from this.metrics when it is set,
\* otherwise it runs the metrics command
getMetrics(t) ==
    IF metrics # Null THEN [t EXCEPT !.pc = "done"] ELSE [t EXCEPT !.pc = "metrics"]

\* lines 25-40: train() starts a training pass
train(t, pc) == [t EXCEPT !.pc = pc, !.trains = @ + 1]

\* analyzeArticles has settled with this result; a rejection goes to the
\* handler's catch (server.js line 368), anything else on to getMetrics()
settle(t, result) ==
    IF result = "threw" THEN [t EXCEPT !.pc = "done", !.result = result]
    ELSE getMetrics([t EXCEPT !.result = result])

\* lines 117-131: the catch block of analyzeArticles
catch(t, out) ==
    IF out = "threwNotTrained" THEN train(t, "catchTrain")
    ELSE settle([t EXCEPT !.error = "message"], "neutral")

StartsTraining(t) == t.pc \in {"train", "catchTrain", "mtrain", "mtrainAgain"}

\* the task k moves to t2; a training pass it starts is counted
Step(k, t2) ==
    /\ task' = [task EXCEPT ![k] = t2]
    /\ trainCalls' = IF StartsTraining(t2) /\ t2.pc # task[k].pc THEN trainCalls + 1
                     ELSE trainCalls

\* server.js line 18, lines 138-140: ensureTrained() at start-up
EnsureTrained ==
    /\ task[0].pc = "idle"
    /\ IF isTrained THEN Step(0, [task[0] EXCEPT !.pc = "done"])
       ELSE Step(0, getMetrics(task[0]))
    /\ isTrained' = IF ~isTrained /\ metrics # Null THEN TRUE ELSE isTrained
    /\ UNCHANGED <<metrics, modelTrained, flaky>>

\* server.js line 365, lines 75-105: analyzeArticles(articles) returns the
\* neutral verdict at once for no articles or no text, and starts the first
\* prediction otherwise
AnalyzeArticlesOfUnfiltered(k, articles) ==
    /\ task[k].pc = "idle"
    /\ Step(k, IF Len(articles) = 0
               THEN settle([task[k] EXCEPT !.error = "No articles to analyze"], "neutral")
               ELSE [task[k] EXCEPT !.pc = "predict", !.predicts = 1])
    /\ UNCHANGED <<isTrained, metrics, modelTrained, flaky>>

AnalyzeArticlesOf(k, articles) ==
    /\ task[k].pc = "idle"
    /\ Step(k, CASE Len(articles) = 0 ->
                      settle([task[k] EXCEPT !.error = "No articles to analyze"], "neutral")
                 [] Len(texts(articles)) = 0 ->
                      settle([task[k] EXCEPT !.error = "No text content found"], "neutral")
                 [] OTHER -> [task[k] EXCEPT !.pc = "predict", !.predicts = 1])
    /\ UNCHANGED <<isTrained, metrics, modelTrained, flaky>>

\* analyzeArticles(articles) with an article that has a title
AnalyzeArticles(k) == AnalyzeArticlesOf(k, <<TitledArticle>>)

\* lines 105-116: the first prediction settles
PredictDone(k, out) ==
    /\ task[k].pc = "predict"
    /\ Step(k, CASE out = "ok" -> settle([task[k] EXCEPT !.okPredicts = @ + 1], "verdict")
                 [] out = "errorResult" -> train(task[k], "train")
                 [] OTHER -> catch(task[k], out))
    /\ UNCHANGED <<isTrained, metrics, modelTrained, flaky>>

\* lines 112-113: the retried prediction settles; its parsed output is
\* returned as it is
RetryDone(k, out) ==
    /\ task[k].pc = "retry"
    /\ Step(k, CASE out = "ok" -> settle([task[k] EXCEPT !.okPredicts = @ + 1], "verdict")
                 [] out = "errorResult" -> settle(task[k], "rawError")
                 [] OTHER -> catch(task[k], out))
    /\ UNCHANGED <<isTrained, metrics, modelTrained, flaky>>

\* lines 25-40: a training pass settles, in the task and at the place that
\* awaited it: line 110 (then the retry), line 122 (then analyzeArticles
\* again), line 58 or 66 (then getMetrics returns). Line 58 is inside the try
\* of getMetrics, so a pass failing there is followed by the one of line 66.
TrainDone(k, out) ==
    /\ StartsTraining(task[k])
    /\ (task[k].pc = "catchTrain" /\ out = "success") => task[k].predicts < MaxPredicts
    /\ IF out = "success"
       THEN /\ isTrained' = TRUE
            /\ metrics' = <<Metrics>>
            /\ modelTrained' = TRUE
            /\ Step(k, CASE task[k].pc = "train" ->
                               [task[k] EXCEPT !.pc = "retry", !.predicts = @ + 1]
                          [] task[k].pc = "catchTrain" ->
                               [task[k] EXCEPT !.pc = "predict", !.predicts = @ + 1]
                          [] OTHER -> [task[k] EXCEPT !.pc = "done"])
       ELSE /\ Step(k, CASE task[k].pc = "train" -> catch(task[k], "threwOther")
                          [] task[k].pc = "catchTrain" -> settle(task[k], "threw")
                          [] task[k].pc = "mtrain" -> [task[k] EXCEPT !.pc = "mtrainAgain"]
                          [] OTHER -> [task[k] EXCEPT !.pc = "failed"])
            /\ UNCHANGED <<isTrained, metrics, modelTrained>>
    /\ UNCHANGED flaky

\* lines 53-67: the metrics command settles; line 141 after it at start-up
MetricsExecDone(k, out) ==
    /\ task[k].pc = "metrics"
    /\ IF out = "ok"
       THEN /\ metrics' = <<Metrics>>
            /\ isTrained' = IF k = 0 THEN TRUE ELSE isTrained
            /\ Step(k, [task[k] EXCEPT !.pc = "done"])
       ELSE /\ Step(k, [task[k] EXCEPT !.pc = IF out = "errorResult" THEN "mtrain"
                                              ELSE "mtrainAgain"])
            /\ UNCHANGED <<metrics, isTrained>>
    /\ UNCHANGED <<modelTrained, flaky>>

\* from now on a command of the classifier process may fail: it exits with an
\* error, prints no JSON, or reports an error whatever its state
Degrade ==
    /\ ~flaky
    /\ flaky' = TRUE
    /\ UNCHANGED <<isTrained, metrics, modelTrained, trainCalls, task>>

\* what the SentimentAnalyzer actions leave alone
OutsideClassifier ==
    UNCHANGED <<now, ticks, analyzerVars, cache, req, useAISummary, lastResponse, nreq,
                fetchVars, watcherVars, callVars, clickVars>>

----------------------------------------------------------------------------
(* Clipboard watcher (main.js): watch mode polls the clipboard and hands a
   newly copied ticker to tickerAnalyzer.analyze *)

POLL_INTERVAL == 500
DEBOUNCE == 2000

\* Date.now() when the process starts; the real value is about 1.7e12, all
\* that matters here is that it exceeds DEBOUNCE
BootTime == 100000
DateNow == BootTime + now

\* texts the user can put on the clipboard
ClipTexts ==
    { <<>>, <<"h", "e", "l", "l", "o", " ", "w", "o", "r", "l", "d">>,
      <<"M", "S", "F", "T">>, <<"A", "A", "P", "L">>, <<"m", "s", "f", "t", " ">> }

NoDispatch == [n |-> 0, ticker |-> <<>>, at |-> 0]

\* the ticker tickerAnalyzer.analyze(text) asks the backend about (line 46 of
\* ticker-analyzer.js)
tickerOf(text) == toUpperCase(trim(text))

\* the user copies a text
Copy(text) ==
    /\ copies < MaxCopies
    /\ text # clipboard
    /\ clipboard' = text
    /\ copies' = copies + 1
    /\ sinceCopy' = 0
    /\ UNCHANGED <<watchModeEnabled, clipboardMonitor, pollTimers, lastClipboardText,
                   lastProcessTime, lastDispatch>>

\* startClipboardMonitoring() without its test of clipboardMonitor
startClipboardMonitoringUnguarded ==
    /\ lastClipboardText' = trim(clipboard)
    /\ lastProcessTime' = 0
    /\ clipboardMonitor' = <<now + POLL_INTERVAL>>
    /\ pollTimers' = pollTimers + 1

\* lines 164-178: startClipboardMonitoring()
startClipboardMonitoring ==
    IF clipboardMonitor # Null
    THEN UNCHANGED <<clipboardMonitor, pollTimers, lastClipboardText, lastProcessTime>>
    ELSE /\ lastClipboardText' = trim(clipboard)
         /\ lastProcessTime' = 0
         /\ clipboardMonitor' = <<now + POLL_INTERVAL>>
         /\ pollTimers' = pollTimers + 1

\* lines 217-222: stopClipboardMonitoring()
stopClipboardMonitoring ==
    /\ clipboardMonitor' = Null
    /\ pollTimers' = IF clipboardMonitor # Null THEN pollTimers - 1 ELSE pollTimers
    /\ UNCHANGED <<lastClipboardText, lastProcessTime>>

\* a further call of startClipboardMonitoring() while the interval runs; the
\* toggles make none, it is the test of lines 165-168 that such a call meets
StartAgain ==
    /\ clipboardMonitor # Null
    /\ startClipboardMonitoring
    /\ UNCHANGED <<clipboard, watchModeEnabled, copies, sinceCopy, lastDispatch>>

\* lines 277-291 and 356-367: the shortcut or the renderer toggles watch mode
ToggleWatchMode ==
    /\ watchModeEnabled' = ~watchModeEnabled
    /\ IF watchModeEnabled' THEN startClipboardMonitoring ELSE stopClipboardMonitoring
    /\ UNCHANGED <<clipboard, copies, sinceCopy, lastDispatch>>

\* the watcher hands the text to tickerAnalyzer.analyze
dispatch(text) ==
    /\ nextSid' = nextSid + 1
    /\ analyze(text, nextSid + 1)
    /\ lastDispatch' = [n |-> lastDispatch.n + 1, ticker |-> tickerOf(text), at |-> DateNow]
    /\ sinceCopy' = sinceCopy + 1

noDispatch == UNCHANGED <<nextSid, isAnalyzing, pendingTickers, inFlight, started,
                          lastDispatch, sinceCopy>>

\* the sample is not recorded, so the same clipboard text counts as changed
\* at every poll
PollForgetsSample ==
    /\ clipboardMonitor # Null
    /\ now = clipboardMonitor[1]
    /\ clipboardMonitor' = <<now + POLL_INTERVAL>>
    /\ LET trimmedText == trim(clipboard) IN
       IF trimmedText # <<>> /\ trimmedText # trim(lastClipboardText)
       THEN /\ UNCHANGED lastClipboardText
            /\ IF isValidTicker(trimmedText) /\ DateNow - lastProcessTime > DEBOUNCE
               THEN lastProcessTime' = DateNow /\ dispatch(trimmedText)
               ELSE UNCHANGED lastProcessTime /\ noDispatch
       ELSE UNCHANGED <<lastClipboardText, lastProcessTime>> /\ noDispatch
    /\ UNCHANGED <<clipboard, watchModeEnabled, pollTimers, copies>>

\* lines 178-215: the interval callback
Poll ==
    /\ clipboardMonitor # Null
    /\ now = clipboardMonitor[1]
    /\ clipboardMonitor' = <<now + POLL_INTERVAL>>
    /\ LET trimmedText == trim(clipboard) IN
       IF trimmedText # <<>> /\ trimmedText # trim(lastClipboardText)
       THEN /\ lastClipboardText' = trimmedText
            /\ IF isValidTicker(trimmedText) /\ DateNow - lastProcessTime > DEBOUNCE
               THEN lastProcessTime' = DateNow /\ dispatch(trimmedText)
               ELSE UNCHANGED lastProcessTime /\ noDispatch
       ELSE UNCHANGED <<lastClipboardText, lastProcessTime>> /\ noDispatch
    /\ UNCHANGED <<clipboard, watchModeEnabled, pollTimers, copies>>

\* time passes, up to the next firing of the interval
WATCH_STEP == 250

WatchTick ==
    /\ Tick(WATCH_STEP, MaxWatchTicks)
    /\ clipboardMonitor # Null => now + WATCH_STEP <= clipboardMonitor[1]
    /\ UNCHANGED <<analyzerVars, watcherVars>>

\* what the watcher leaves alone
OutsideWatcher == UNCHANGED <<serverVars, fetchVars, classifierVars, callVars, clickVars>>

----------------------------------------------------------------------------
(* TextExtractor.extractTickers (modules/text-extractor.js) and
   generateFastSummary (server.js), applied to inputs of their own *)

\* \w of a regular expression
IsWordChar(c) == c \in Range(Upper) \cup Range(Lower) \cup Digits \cup {"_"}

\* \b between the positions i and i + 1 of s (0 is before the text)
IsBoundary(s, i) ==
    LET before == i >= 1 /\ IsWordChar(s[i])
        after == i < Len(s) /\ IsWordChar(s[i + 1])
    IN  before # after

\* [A-Z]{n} at position i of s
LettersAt(s, i, n) == i + n - 1 <= Len(s) /\ \A j \in i..(i + n - 1) : IsUpperLetter(s[j])

\* \.[A-Z] at position i of s
SuffixAt(s, i) == i + 1 <= Len(s) /\ s[i] = "." /\ IsUpperLetter(s[i + 1])

\* the ways /\b[A-Z]{1,5}(?:\.[A-Z])?\b/ matches at position i: the number
\* of letters, and whether the suffix is taken
Matches(s, i) ==
    IF ~IsBoundary(s, i - 1) THEN {}
    ELSE {m \in (1..5) \X BOOLEAN :
            /\ LettersAt(s, i, m[1])
            /\ m[2] => SuffixAt(s, i + m[1])
            /\ IsBoundary(s, i + m[1] - 1 + (IF m[2] THEN 2 ELSE 0))}

\* the length of the match the regular expression engine settles on: as many
\* letters as possible, and with that number of letters the suffix if possible
MatchLength(s, i) ==
    IF Matches(s, i) = {} THEN 0
    ELSE LET m == CHOOSE m \in Matches(s, i) :
                     \A k \in Matches(s, i) :
                        m[1] > k[1] \/ (m[1] = k[1] /\ (m[2] \/ ~k[2]))
         IN  m[1] + (IF m[2] THEN 2 ELSE 0)

\* text.match(tickerPattern) with the g flag: the matches from position i on,
\* left to right, each search starting where the previous match ended
RECURSIVE matchAll(_, _)
matchAll(s, i) ==
    IF i > Len(s) THEN <<>>
    ELSE LET l == MatchLength(s, i)
         IN  IF l = 0 THEN matchAll(s, i + 1)
             ELSE <<SubSeq(s, i, i + l - 1)>> \o matchAll(s, i + l)

\* lines 172-183: _isValidTicker of the extractor
extractorIsValidTicker(text) ==
    IF text = <<>> THEN FALSE
    ELSE LET cleaned == toUpperCase(trim(text))
         IN  tickerPattern(cleaned) \/ simplePattern(cleaned)

\* a ticker is returned once, at its first occurrence
RECURSIVE firstOccurrences(_)
firstOccurrences(ts) ==
    IF ts = <<>> THEN <<>>
    ELSE LET rest == firstOccurrences(SubSeq(ts, 1, Len(ts) - 1))
         IN  IF ts[Len(ts)] \in Range(rest) THEN rest ELSE Append(rest, ts[Len(ts)])

extractTickersDeduplicating(text) ==
    IF text = <<>> THEN <<>>
    ELSE firstOccurrences(SelectSeq(matchAll(text, 1), extractorIsValidTicker))

\* lines 156-166: extractTickers(text)
extractTickers(text) ==
    IF text = <<>> THEN <<>>
    ELSE SelectSeq(matchAll(text, 1), extractorIsValidTicker)

\* the texts of up to n characters out of A, B, a, 1, the dot and the blank
RECURSIVE TextsUpTo(_)
TextsUpTo(n) ==
    IF n = 0 THEN {<<>>}
    ELSE LET shorter == TextsUpTo(n - 1)
         IN  shorter \cup {Append(t, c) : t \in {u \in shorter : Len(u) = n - 1}, c \in {"A", "B", "a", "1", ".", " "}}

\* texts given to extractTickers: some long ones, and every text of up to
\* MaxTextLen characters
TextInputs ==
    { <<"A", "B", "C", "D", "E", "F">>,
      <<"A", "A", "P", "L", "2">>,
      <<"A", "A", "P", "L", " ", "A", "A", "P", "L">>,
      <<"b", "u", "y", " ", "A", "A", "P", "L", " ", "a", "n", "d", " ",
        "A", "A", "P", "L", " ", "n", "o", "w">>,
      <<"b", "u", "y", " ", "a", "a", "p", "l">>,
      <<"B", "R", "K", ".", "B", " ", "\t", "M", "S", "F", "T", ".", "A", "B">>,
      <<" ", "\n", "\t", " ", " ">> }
       \cup TextsUpTo(MaxTextLen)

\* article lists given to generateFastSummary: up to MaxArticles articles with
\* one of three titles
RECURSIVE ListsUpTo(_)
ListsUpTo(n) ==
    IF n = 0 THEN {<<>>}
    ELSE LET shorter == ListsUpTo(n - 1)
         IN  shorter \cup {Append(l, Item(t, NoDate)) :
                             l \in {u \in shorter : Len(u) = n - 1},
                             t \in {"", "Stock rallies", "Stock falls"}}

SummaryInputs == ListsUpTo(MaxArticles)

Pending(fn, input) == [fn |-> fn, input |-> input, output |-> <<>>, done |-> FALSE]

\* extractTickers is applied to the text
Extract ==
    /\ lastCall.fn = "extractTickers" /\ ~lastCall.done
    /\ lastCall' = [lastCall EXCEPT !.output = extractTickers(lastCall.input), !.done = TRUE]

\* generateFastSummary is applied to the articles
FastSummary ==
    /\ lastCall.fn = "generateFastSummary" /\ ~lastCall.done
    /\ lastCall' = [lastCall EXCEPT !.output = generateFastSummary(lastCall.input),
                                    !.done = TRUE]

\* what a function application leaves alone
OutsideCalls ==
    UNCHANGED <<now, ticks, analyzerVars, serverVars, fetchVars, classifierVars, watcherVars,
                clickVars>>

----------------------------------------------------------------------------
(* ClickDetector (modules/click-detector.js): polls the clipboard and probes
   the selection, and hands the first ticker of a new text to the callback
   that start() was given *)

CLICK_INTERVAL == 200
SAMPLE_DELAY == 100
PROBE_PERIOD == 500
debounceDelay == 1000

\* texts that are copied or selected while the detector runs
ClickTexts ==
    { <<"M", "S", "F", "T">>, <<"A", "A", "P", "L", " ", "M", "S", "F", "T">>,
      <<"n", "o">> }

\* what getSelectedText() resolves with
SelectedTexts == { <<>>, <<"M", "S", "F", "T">> }

NoSample == [text |-> <<>>, fate |-> "none"]
NoInvoke == [n |-> 0, text |-> <<>>, ticker |-> <<>>, at |-> 0, monitoring |-> FALSE]

\* lines 26-40 and 61-65: start(onTickerDetected)
start ==
    /\ IF isMonitoring
       THEN UNCHANGED <<isMonitoring, clickHandler, onTickerDetected, lastClipboard,
                        lastCheckTime>>
       ELSE /\ onTickerDetected' = TRUE
            /\ isMonitoring' = TRUE
            /\ lastClipboard' = clipboard
            /\ lastCheckTime' = DateNow
            /\ clickHandler' = <<now + CLICK_INTERVAL>>
    /\ UNCHANGED <<lastClickTime, lastProcessedTicker, isExtracting, sampleTimers, probes,
                   lastSample, lastInvoke, prevInvoke>>

\* lines 45-56: stop()
stop ==
    /\ IF ~isMonitoring
       THEN UNCHANGED <<isMonitoring, clickHandler>>
       ELSE /\ isMonitoring' = FALSE
            /\ clickHandler' = Null
    /\ UNCHANGED <<lastClickTime, lastProcessedTicker, isExtracting, onTickerDetected,
                   lastClipboard, lastCheckTime, sampleTimers, probes, lastSample,
                   lastInvoke, prevInvoke>>

\* _processText without the debounce test
processTextUndebounced(text) ==
    IF text = <<>> \/ ~onTickerDetected THEN <<>>
    ELSE LET tickers == extractTickers(text) IN
         IF tickers # <<>> /\ tickers[1] # lastProcessedTicker THEN <<tickers[1]>> ELSE <<>>

\* lines 134-158: the ticker _processText(text) invokes the callback with, if any
processText(text) ==
    IF text = <<>> \/ ~onTickerDetected THEN <<>>
    ELSE IF DateNow - lastClickTime < debounceDelay THEN <<>>
    ELSE LET tickers == extractTickers(text) IN
         IF tickers # <<>> /\ tickers[1] # lastProcessedTicker THEN <<tickers[1]>> ELSE <<>>

\* lines 148-155: what _processText(text) writes
callProcessText(text) ==
    LET found == processText(text) IN
    IF found # <<>>
    THEN /\ lastClickTime' = DateNow
         /\ lastProcessedTicker' = found[1]
         /\ prevInvoke' = lastInvoke
         /\ lastInvoke' = [n |-> lastInvoke.n + 1, text |-> text, ticker |-> found[1],
                           at |-> DateNow, monitoring |-> isMonitoring]
    ELSE UNCHANGED <<lastClickTime, lastProcessedTicker, lastInvoke, prevInvoke>>

\* lines 96-100: _tryGetSelectedText() up to the call of getSelectedText()
tryGetSelectedText ==
    IF isExtracting
    THEN UNCHANGED <<isExtracting, probes>>
    ELSE isExtracting' = TRUE /\ probes' = probes + 1

\* lines 66-91: the interval callback
ClickInterval ==
    /\ clickHandler # Null
    /\ now = clickHandler[1]
    /\ clickHandler' = <<now + CLICK_INTERVAL>>
    /\ IF ~isMonitoring \/ isExtracting
       THEN UNCHANGED <<lastClipboard, sampleTimers, lastCheckTime, isExtracting, probes>>
       ELSE /\ IF clipboard # <<>> /\ clipboard # lastClipboard
               THEN /\ lastClipboard' = clipboard
                    /\ sampleTimers' = Append(sampleTimers,
                                              [at |-> now + SAMPLE_DELAY, text |-> clipboard])
               ELSE UNCHANGED <<lastClipboard, sampleTimers>>
            /\ IF DateNow - lastCheckTime > PROBE_PERIOD
               THEN lastCheckTime' = DateNow /\ tryGetSelectedText
               ELSE UNCHANGED <<lastCheckTime, isExtracting, probes>>
    /\ UNCHANGED <<isMonitoring, lastClickTime, lastProcessedTicker, onTickerDetected,
                   lastSample, lastInvoke, prevInvoke>>

\* lines 76-81: the callback of a sample's timer
SampleTimer ==
    /\ sampleTimers # <<>>
    /\ now = Head(sampleTimers).at
    /\ sampleTimers' = Tail(sampleTimers)
    /\ IF ~isExtracting
       THEN /\ lastSample' = [text |-> Head(sampleTimers).text, fate |-> "processed"]
            /\ callProcessText(trim(Head(sampleTimers).text))
       ELSE /\ lastSample' = [text |-> Head(sampleTimers).text, fate |-> "dropped"]
            /\ UNCHANGED <<lastClickTime, lastProcessedTicker, lastInvoke, prevInvoke>>
    /\ UNCHANGED <<isMonitoring, clickHandler, isExtracting, onTickerDetected,
                   lastClipboard, lastCheckTime, probes>>

\* lines 101-110: getSelectedText() resolves with the selected text
ProbeResolves(text) ==
    /\ probes > 0
    /\ IF trim(text) # <<>> /\ trim(text) # lastProcessedTicker
       THEN callProcessText(trim(text))
       ELSE UNCHANGED <<lastClickTime, lastProcessedTicker, lastInvoke, prevInvoke>>
    /\ isExtracting' = FALSE
    /\ probes' = probes - 1
    /\ UNCHANGED <<isMonitoring, clickHandler, onTickerDetected, lastClipboard,
                   lastCheckTime, sampleTimers, lastSample>>

\* lines 111-113: getSelectedText() rejects
ProbeRejects ==
    /\ probes > 0
    /\ isExtracting' = FALSE
    /\ probes' = probes - 1
    /\ UNCHANGED <<isMonitoring, clickHandler, lastClickTime, lastProcessedTicker,
                   onTickerDetected, lastClipboard, lastCheckTime, sampleTimers,
                   lastSample, lastInvoke, prevInvoke>>

\* time passes until the next timer of the detector fires, or by one period
\* of the interval while there is none
ClickTick ==
    /\ LET due == (IF clickHandler # Null THEN {clickHandler[1]} ELSE {})
                   \cup {sampleTimers[i].at : i \in DOMAIN sampleTimers}
           next == IF due = {} THEN now + CLICK_INTERVAL
                   ELSE CHOOSE t \in due : \A u \in due : t <= u
       IN  next > now /\ Tick(next - now, MaxClickTicks)
    /\ UNCHANGED <<watcherVars, clickVars>>

\* what the detector leaves alone
OutsideClick == UNCHANGED <<analyzerVars, serverVars, fetchVars, classifierVars, callVars>>

----------------------------------------------------------------------------
(* Initial state *)

NoCompletion == [sid |-> 0, outcome |-> "none", next |-> 0, at |-> 0, callbacks |-> <<>>]

InitAnalyzer ==
    /\ isAnalyzing = FALSE
    /\ pendingTickers = <<>>
    /\ inFlight = <<>>
    /\ timers = <<>>
    /\ started = <<>>
    /\ nextSid = 0
    /\ lastDone = NoCompletion

InitServer ==
    /\ cache = <<>>
    /\ req = [i \in Slots |-> Idle]
    /\ useAISummary \in BOOLEAN
    /\ metrics = <<>>
    /\ lastResponse = NoResponse
    /\ nreq = 0

InitFetch == lastFetch = NoFetch

InitWatcher ==
    /\ clipboard = <<>>
    /\ watchModeEnabled = FALSE
    /\ clipboardMonitor = Null
    /\ pollTimers = 0
    /\ lastClipboardText = <<>>
    /\ lastProcessTime = 0
    /\ copies = 0
    /\ sinceCopy = 0
    /\ lastDispatch = NoDispatch

InitClick ==
    /\ isMonitoring = FALSE
    /\ clickHandler = Null
    /\ lastClickTime = 0
    /\ lastProcessedTicker = <<>>
    /\ isExtracting = FALSE
    /\ onTickerDetected = FALSE
    /\ lastClipboard = <<>>
    /\ lastCheckTime = 0
    /\ sampleTimers = <<>>
    /\ probes = 0
    /\ lastSample = NoSample
    /\ lastInvoke = NoInvoke
    /\ prevInvoke = NoInvoke

InitCalls == lastCall = [fn |-> "none", input |-> <<>>, output |-> <<>>, done |-> FALSE]

InitClassifier ==
    /\ isTrained = FALSE
    /\ modelTrained = FALSE
    /\ flaky = FALSE
    /\ trainCalls = 0
    /\ task = [k \in Tasks |-> NewTask]

Init ==
    /\ now = 0
    /\ ticks = 0
    /\ InitAnalyzer
    /\ InitServer
    /\ InitFetch
    /\ InitClassifier
    /\ InitWatcher
    /\ InitClick
    /\ InitCalls

NextQueue ==
    \/ \E t \in AnalyzeInputs : Submit(t) /\ UNCHANGED <<fetchVars, classifierVars, watcherVars, callVars, clickVars>>
    \/ \E k \in 1..MaxSubmit, o \in Outcomes : Complete(k, o) /\ UNCHANGED <<fetchVars, classifierVars, watcherVars, callVars, clickVars>>
    \/ TimerFire /\ UNCHANGED <<fetchVars, classifierVars, watcherVars, callVars, clickVars>>
    \/ ClientTick /\ UNCHANGED <<fetchVars, classifierVars, watcherVars, callVars, clickVars>>

QueueSpec == Init /\ [][NextQueue]_vars

\* the start of the runs in which the backend plays no part
InitDetector == Init /\ ~useAISummary

\* the TickerAnalyzer when every request is answered, with data or with a
\* refused connection, and every drain timer fires
OutsideAnalyzer == UNCHANGED <<fetchVars, classifierVars, watcherVars, callVars, clickVars>>
CompleteSome ==
    \E k \in 1..MaxSubmit, o \in {"data", "ECONNREFUSED"} : Complete(k, o) /\ OutsideAnalyzer
NextDrain ==
    \/ \E t \in AnalyzeInputs : Submit(t) /\ OutsideAnalyzer
    \/ CompleteSome
    \/ TimerElapses /\ OutsideAnalyzer

DrainSpec ==
    /\ InitDetector
    /\ [][NextDrain]_vars
    /\ WF_vars(CompleteSome)
    /\ WF_vars(TimerElapses /\ OutsideAnalyzer)

NextServer ==
    \/ \E i \in Slots, raw \in RawInputs : Receive(i, raw) /\ UNCHANGED <<fetchVars, classifierVars, watcherVars, callVars, clickVars>>
    \/ \E i \in Slots, out \in RssOutcomes : RssDone(i, out) /\ UNCHANGED <<fetchVars, classifierVars, watcherVars, callVars, clickVars>>
    \/ \E i \in Slots, out \in ScrapeOutcomes : ScrapeDone(i, out) /\ UNCHANGED <<fetchVars, classifierVars, watcherVars, callVars, clickVars>>
    \/ \E i \in Slots, out \in AIOutcomes : SummaryDone(i, out) /\ UNCHANGED <<fetchVars, classifierVars, watcherVars, callVars, clickVars>>
    \/ \E i \in Slots, out \in SentimentOutcomes : SentimentDone(i, out) /\ UNCHANGED <<fetchVars, classifierVars, watcherVars, callVars, clickVars>>
    \/ \E i \in Slots, ok \in BOOLEAN : MetricsDone(i, ok) /\ UNCHANGED <<fetchVars, classifierVars, watcherVars, callVars, clickVars>>
    \/ Sweep /\ UNCHANGED <<fetchVars, classifierVars, watcherVars, callVars, clickVars>>
    \/ ServerTick /\ UNCHANGED <<fetchVars, classifierVars, watcherVars, callVars, clickVars>>

ServerSpec == Init /\ [][NextServer]_vars

\* the three endpoints of the backend together
NextEndpoints ==
    \/ NextServer
    \/ Health /\ UNCHANGED <<fetchVars, classifierVars, watcherVars, callVars, clickVars>>
    \/ \E raw \in {x \in RawInputs : x.kind = "string"}, rss \in RssOutcomes,
          scrape \in ScrapeOutcomes :
          /\ TestTicker(raw.text, rss, scrape)
          /\ UNCHANGED <<fetchVars, classifierVars, watcherVars, callVars, clickVars>>

EndpointSpec == Init /\ [][NextEndpoints]_vars

\* one request at a time, over many spellings of the ticker, with both fetch
\* strategies finding nothing
NextSpelling ==
    \/ \E raw \in SpellingInputs : Receive(1, raw) /\ UNCHANGED <<fetchVars, classifierVars, watcherVars, callVars, clickVars>>
    \/ RssDone(1, [ok |-> TRUE, items |-> <<>>]) /\ UNCHANGED <<fetchVars, classifierVars, watcherVars, callVars, clickVars>>
    \/ ScrapeDone(1, [ok |-> FALSE, selectors |-> <<>>]) /\ UNCHANGED <<fetchVars, classifierVars, watcherVars, callVars, clickVars>>
    \/ ServerTick /\ UNCHANGED <<fetchVars, classifierVars, watcherVars, callVars, clickVars>>

SpellingSpec == Init /\ [][NextSpelling]_vars

\* one request at a time, over the feeds and pages above
NextFetch ==
    \/ \E raw \in RawInputs : FetchReceive(raw)
    \/ \E out \in FeedOutcomes : FeedDone(out)
    \/ \E out \in PageOutcomes : PageDone(out)
    \/ \E out \in AIResponses : SummaryDone(1, out) /\ UNCHANGED <<fetchVars, classifierVars, watcherVars, callVars, clickVars>>
    \/ \E out \in SentimentOutcomes : SentimentDone(1, out) /\ UNCHANGED <<fetchVars, classifierVars, watcherVars, callVars, clickVars>>
    \/ \E ok \in BOOLEAN : MetricsDone(1, ok) /\ UNCHANGED <<fetchVars, classifierVars, watcherVars, callVars, clickVars>>
    \/ IdleTick

FetchSpec == Init /\ [][NextFetch]_vars

\* the start-up ensureTrained() and the sentiment stages of concurrent requests
NextSentiment ==
    \/ Degrade /\ OutsideClassifier
    \/ EnsureTrained /\ OutsideClassifier
    \/ \E k \in Analyses : AnalyzeArticles(k) /\ OutsideClassifier
    \/ \E k \in Analyses, out \in ExecResults : PredictDone(k, out) /\ OutsideClassifier
    \/ \E k \in Analyses, out \in ExecResults : RetryDone(k, out) /\ OutsideClassifier
    \/ \E k \in Tasks, out \in TrainResults : TrainDone(k, out) /\ OutsideClassifier
    \/ \E k \in Tasks, out \in ExecResults : MetricsExecDone(k, out) /\ OutsideClassifier

SentimentSpec == Init /\ [][NextSentiment]_vars

\* the start-up ensureTrained() and the sentiment stage of one request, over
\* the article lists above
NextAnalysis ==
    \/ Degrade /\ OutsideClassifier
    \/ EnsureTrained /\ OutsideClassifier
    \/ \E articles \in ArticleInputs : AnalyzeArticlesOf(1, articles) /\ OutsideClassifier
    \/ \E out \in ExecResults : PredictDone(1, out) /\ OutsideClassifier
    \/ \E out \in ExecResults : RetryDone(1, out) /\ OutsideClassifier
    \/ \E k \in 0..1, out \in TrainResults : TrainDone(k, out) /\ OutsideClassifier
    \/ \E k \in 0..1, out \in ExecResults : MetricsExecDone(k, out) /\ OutsideClassifier

AnalysisSpec == Init /\ [][NextAnalysis]_vars

\* the clipboard watcher under copies, watch-mode toggles and polls; the
\* backend does not answer within the run, so dispatched tickers queue up in
\* the TickerAnalyzer
NextWatch ==
    \/ \E text \in ClipTexts : Copy(text) /\ UNCHANGED <<now, ticks, analyzerVars>> /\ OutsideWatcher
    \/ ToggleWatchMode /\ UNCHANGED <<now, ticks, analyzerVars>> /\ OutsideWatcher
    \/ StartAgain /\ UNCHANGED <<now, ticks, analyzerVars>> /\ OutsideWatcher
    \/ Poll /\ UNCHANGED <<now, ticks, timers, lastDone>> /\ OutsideWatcher
    \/ WatchTick /\ OutsideWatcher

WatchSpec == Init /\ [][NextWatch]_vars

\* the state at start, but for the function application that is pending
InitOutsideCalls ==
    /\ now = 0
    /\ ticks = 0
    /\ InitAnalyzer
    /\ InitServer
    /\ InitFetch
    /\ InitClassifier
    /\ InitWatcher
    /\ InitClick

\* extractTickers over the texts above
InitExtract == InitOutsideCalls /\ lastCall \in {Pending("extractTickers", t) : t \in TextInputs}
NextExtract == Extract /\ OutsideCalls
ExtractSpec == InitExtract /\ [][NextExtract]_vars

\* generateFastSummary over the article lists above
InitSummary ==
    InitOutsideCalls /\ lastCall \in {Pending("generateFastSummary", l) : l \in SummaryInputs}
NextSummary == FastSummary /\ OutsideCalls
SummarySpec == InitSummary /\ [][NextSummary]_vars

\* the ClickDetector under copies, start(), stop(), its timers and its probes
NextClick ==
    \/ \E text \in ClickTexts :
          /\ copies < MaxClickCopies
          /\ Copy(text) /\ UNCHANGED <<now, ticks, clickVars>> /\ OutsideClick
    \/ start /\ UNCHANGED <<now, ticks, watcherVars>> /\ OutsideClick
    \/ stop /\ UNCHANGED <<now, ticks, watcherVars>> /\ OutsideClick
    \/ ClickInterval /\ UNCHANGED <<now, ticks, watcherVars>> /\ OutsideClick
    \/ SampleTimer /\ UNCHANGED <<now, ticks, watcherVars>> /\ OutsideClick
    \/ \E text \in SelectedTexts :
          ProbeResolves(text) /\ UNCHANGED <<now, ticks, watcherVars>> /\ OutsideClick
    \/ ProbeRejects /\ UNCHANGED <<now, ticks, watcherVars>> /\ OutsideClick
    \/ ClickTick /\ OutsideClick

ClickSpec == InitDetector /\ [][NextClick]_vars

----------------------------------------------------------------------------
(* Properties of the TickerAnalyzer queue, under QueueSpec *)

\* C1: at most one backend request issued by analyze() is awaiting its
\* response at any moment.
SingleFlight == Len(inFlight) <= 1

\* C1 witness: a request is in flight after an earlier one completed, while a
\* ticker is queued and a drain timer is still pending.
SingleFlightBusy ==
    /\ Len(inFlight) = 1
    /\ Len(started) >= 2
    /\ pendingTickers # <<>>
    /\ timers # <<>>

\* C2: requests start in the order of the analyze() calls: once the request of
\* a submission has started, the request of every earlier submission has too.
FifoDispatch ==
    \A k \in 1..Len(started) :
        \A earlier \in 1..(started[k] - 1) :
            \E j \in 1..k : started[j] = earlier

FailureOutcomes == {"errorField", "ECONNREFUSED", "ETIMEDOUT", "otherError"}

\* C3: every completion, successful or failed, clears isAnalyzing and, when a
\* ticker is pending, removes the head and arms a timer for it that is due 500
\* ms later; the timer does not fire before it is due and then invokes
\* analyze for that ticker (which starts its request or queues it again).
CompletionDrains ==
    [][ /\ (Len(inFlight') < Len(inFlight)) =>
              /\ isAnalyzing' = FALSE
              /\ IF pendingTickers # <<>>
                 THEN /\ pendingTickers' = Tail(pendingTickers)
                      /\ timers' = Append(timers,
                                          [ticker |-> Head(pendingTickers).ticker,
                                           sid |-> Head(pendingTickers).sid,
                                           due |-> now + 500])
                 ELSE pendingTickers' = <<>> /\ timers' = timers
        /\ (Len(timers') < Len(timers)) =>
              /\ timers' = Tail(timers)
              /\ now >= Head(timers).due
              /\ \/ /\ inFlight' = Append(inFlight,
                                          [ticker |-> toUpperCase(trim(Head(timers).ticker)),
                                           sid |-> Head(timers).sid])
                    /\ pendingTickers' = pendingTickers
                 \/ /\ pendingTickers' = Append(pendingTickers,
                                                [ticker |-> Head(timers).ticker,
                                                 sid |-> Head(timers).sid])
                    /\ inFlight' = inFlight
      ]_vars

\* C3 witness: an analysis failed while a ticker was pending, and the request
\* of that ticker is in flight no earlier than 500 ms after the failure.
DrainedAfterFailure ==
    /\ lastDone.outcome \in FailureOutcomes
    /\ lastDone.next # 0
    /\ \E k \in 1..Len(inFlight) : inFlight[k].sid = lastDone.next
    /\ now >= lastDone.at + 500

----------------------------------------------------------------------------
(* Properties of the cache and the request handler, under ServerSpec *)

\* the step is the arrival of a request
Received == nreq' = nreq + 1

\* the handler instance that the arriving request left open, if any
Opened == {i \in Slots : req[i].pc = "idle" /\ req'[i].pc # "idle"}

\* the step sent a response
Responded ==
    \/ \E i \in Slots : req[i].pc # "idle" /\ req'[i].pc = "idle"
    \/ Received /\ Opened = {}

Fresh(e) == now - e.timestamp < 300000

\* C4: a lookup of a ticker whose entry is younger than the TTL answers with
\* the stored result and no result of age >= TTL is served; a lookup of a
\* ticker whose entry has age >= TTL misses and removes the entry.
CacheRoundTripAndExpiry ==
    [][ Received =>
          /\ \A i \in Opened :
                LET k == req'[i].cleanTicker IN
                /\ ~mapHas(cache', k)
                /\ mapHas(cache, k) => ~Fresh(mapGet(cache, k))
          /\ (Opened = {} /\ lastResponse'.io = <<"lookup">>) =>
                LET k == lastResponse'.cleanTicker IN
                /\ mapHas(cache, k)
                /\ Fresh(mapGet(cache, k))
                /\ lastResponse'.body = mapGet(cache, k).data
      ]_vars

\* C4 witness: a request was answered from an entry one millisecond short of
\* the TTL.
ServedAtLastMoment ==
    /\ lastResponse.io = <<"lookup">>
    /\ mapHas(cache, lastResponse.cleanTicker)
    /\ now - mapGet(cache, lastResponse.cleanTicker).timestamp = 300000 - 1
    /\ lastResponse.body = mapGet(cache, lastResponse.cleanTicker).data

UniqueCacheKeys ==
    \A i, j \in 1..Len(cache) : cache[i].key = cache[j].key => i = j

\* C5: the cache never holds two entries for one ticker, and a write for a
\* ticker leaves exactly the written result under it, stamped with the time of
\* the write, all other entries being untouched.
OneEntryPerTicker ==
    /\ []UniqueCacheKeys
    /\ [][ (Responded /\ Did(lastResponse'.io, "write")) =>
              LET k == lastResponse'.cleanTicker IN
              /\ mapHas(cache', k)
              /\ mapGet(cache', k).data = lastResponse'.body
              /\ mapGet(cache', k).timestamp = now
              /\ mapDelete(cache', k) = mapDelete(cache, k)
         ]_vars

\* C5 witness: a write replaced the entry another request had stored for the
\* same ticker.
EntryReplaced ==
    /\ Did(lastResponse.io, "replace")
    /\ mapHas(cache, lastResponse.cleanTicker)
    /\ mapGet(cache, lastResponse.cleanTicker).data = lastResponse.body
    /\ Len(cache) = 1

\* C6: a request for a ticker with an unexpired entry is answered with the
\* stored result, opens no fetch, summary or sentiment call, and leaves the
\* cache, the entry's timestamp included, as it was.
HitHasNoEffect ==
    [][ Received =>
          LET k == IF Opened = {} THEN lastResponse'.cleanTicker
                   ELSE req'[CHOOSE i \in Opened : TRUE].cleanTicker
          IN  (mapHas(cache, k) /\ Fresh(mapGet(cache, k))) =>
                 /\ Opened = {}
                 /\ req' = req
                 /\ cache' = cache
                 /\ metrics' = metrics
                 /\ lastResponse'.status = 200
                 /\ lastResponse'.body = mapGet(cache, k).data
                 /\ lastResponse'.io = <<"lookup">>
      ]_vars

\* C6 witness: a hit served from an entry stored earlier, whose timestamp is
\* still the time of its write.
HitKeptTimestamp ==
    /\ lastResponse.io = <<"lookup">>
    /\ lastResponse.status = 200
    /\ mapHas(cache, lastResponse.cleanTicker)
    /\ mapGet(cache, lastResponse.cleanTicker).timestamp = 0
    /\ now > 0

EmptyResult(ticker) ==
    [ticker |-> ticker,
     summary |-> <<"No recent news articles found for ", ticker,
                   ". The ticker may be invalid or there may be no recent news. Please verify the ticker symbol is correct.">>,
     articles |-> <<>>]

\* C7: when a success response is sent, the cache holds the sent result under
\* the normalized ticker in an unexpired entry (a request arriving next is
\* answered with it), stamped now if this request assembled it; a result
\* without articles is exactly { ticker, no-news summary, articles: [] }.
ResultCachedBeforeResponse ==
    [][ (Responded /\ lastResponse'.status = 200) =>
          LET k == lastResponse'.cleanTicker
              body == lastResponse'.body
          IN  /\ body.ticker = k
              /\ mapHas(cache', k)
              /\ mapGet(cache', k).data = body
              /\ now - mapGet(cache', k).timestamp < CACHE_TTL
              /\ lastResponse'.io # <<"lookup">> =>
                    /\ Did(lastResponse'.io, "write")
                    /\ mapGet(cache', k).timestamp = now
              /\ body.articles = <<>> => body = EmptyResult(k)
      ]_vars

\* C7 witness: both strategies found nothing and the empty result is in the
\* cache when the response has been sent.
EmptyResultCached ==
    /\ lastResponse.status = 200
    /\ \A e \in {"rss", "scrape", "write"} : Did(lastResponse.io, e)
    /\ lastResponse.body = EmptyResult(lastResponse.cleanTicker)
    /\ mapHas(cache, lastResponse.cleanTicker)
    /\ mapGet(cache, lastResponse.cleanTicker).data = lastResponse.body

----------------------------------------------------------------------------
(* Properties of the ticker normalisation, under SpellingSpec *)

\* C8: only a string of the ticker shape reaches a news fetch.
OnlyTickerShapeFetched ==
    \A i \in Slots : req[i].pc # "idle" => tickerPattern(req[i].cleanTicker)

\* the text of the arriving request
ReceivedRaw ==
    IF Opened = {} THEN lastResponse'.raw ELSE req'[CHOOSE i \in Opened : TRUE].raw

\* the letters, digits and dots of a text, uppercased
Symbol(text) == stripDisallowed(toUpperCase(text))

\* C9: a request whose ticker is missing, or empty after cleaning, is answered
\* with status 400 and an { error } body; it looks nothing up, opens no call
\* and leaves the cache unchanged.
EmptyTickerRejected ==
    [][ (Received /\ (ReceivedRaw.kind = "undefined" \/ Symbol(ReceivedRaw.text) = <<>>)) =>
          /\ Opened = {}
          /\ req' = req
          /\ cache' = cache
          /\ lastResponse'.status = 400
          /\ DOMAIN lastResponse'.body = {"error"}
          /\ lastResponse'.io = <<>>
      ]_vars

\* C9 witness: a text that cleans to nothing was rejected while the cache held
\* an entry.
RejectedWithCacheKept ==
    /\ lastResponse.raw = Str(<<"$", "-">>)
    /\ lastResponse.status = 400
    /\ cache # <<>>

\* C10: every cache key is a non-empty string over [A-Z0-9.] that cleaning
\* leaves as it is; a request is looked up under the uppercased letters,
\* digits and dots of its text, whatever its case, whitespace or other
\* characters, and is a hit when that key has an unexpired entry.
SpellingsShareKey ==
    [][ /\ \A n \in 1..Len(cache') :
              /\ cache'[n].key # <<>>
              /\ \A c \in Range(cache'[n].key) : IsAlnumUpper(c) \/ c = "."
              /\ cleanTicker(cache'[n].key) = cache'[n].key
              /\ cache'[n].key = Symbol(cache'[n].by)
        /\ (Received /\ ReceivedRaw.kind = "string") =>
              LET k == Symbol(ReceivedRaw.text) IN
              /\ \A i \in Opened : req'[i].cleanTicker = k
              /\ (mapHas(cache, k) /\ Fresh(mapGet(cache, k))) =>
                    /\ Opened = {}
                    /\ lastResponse'.cleanTicker = k
                    /\ lastResponse'.body = mapGet(cache, k).data
      ]_vars

\* C10 witness: analyze("AAPL") was answered from the entry that
\* analyze("aapl ") had stored.
OtherSpellingHit ==
    /\ lastResponse.raw = Str(<<"A","A","P","L">>)
    /\ lastResponse.io = <<"lookup">>
    /\ lastResponse.status = 200
    /\ mapHas(cache, <<"A","A","P","L">>)
    /\ mapGet(cache, <<"A","A","P","L">>).by = <<"a","a","p","l"," ">>

----------------------------------------------------------------------------
(* Properties of fetchYahooNews, under FetchSpec *)

TitlesOf(as) == [n \in 1..Len(as) |-> as[n].title]
Count(io, e) == Cardinality({n \in 1..Len(io) : io[n] = e})

\* C11: a fetch returns at most 10 articles, so does every result returned or
\* cached; a feed of 12 well-formed entries gives exactly the 10 most recent.
AtMostTenArticles ==
    /\ lastFetch.done => Len(lastFetch.result) <= 10
    /\ lastResponse.status = 200 => Len(lastResponse.body.articles) <= 10
    /\ \A n \in 1..Len(cache) : Len(cache[n].data.articles) <= 10
    /\ (lastFetch.done /\ lastFetch.feed.ok /\ lastFetch.feed.items = TwelveItems) =>
          TitlesOf(lastFetch.result)
             = TitlesOf(FirstN(sortDesc(parseFeed(TwelveItems, lastFetch.fedAt)), 10))

\* C12: the page is requested only when the feed yielded no article; when the
\* feed yielded one, the fetch returns without the page request and its result
\* holds feed articles only.
FallbackOnlyWhenPrimaryEmpty ==
    /\ \A i \in Slots : req[i].pc = "scrape" => req[i].articles = <<>>
    /\ (lastFetch.done /\ Len(lastFetch.collected) > 0) =>
          /\ ~Did(lastFetch.io, "scrape")
          /\ Range(TitlesOf(lastFetch.result)) \subseteq Range(TitlesOf(lastFetch.collected))

\* C13: no request issues the feed request or the page request more than
\* once, and a fetch whose feed strategy threw has issued the page request
\* exactly once when it returns.
EachStrategyOnce ==
    /\ \A i \in Slots : Count(req[i].io, "rss") <= 1 /\ Count(req[i].io, "scrape") <= 1
    /\ Count(lastResponse.io, "rss") <= 1 /\ Count(lastResponse.io, "scrape") <= 1
    /\ (lastFetch.done /\ ~lastFetch.feed.ok) =>
          Count(lastFetch.io, "rss") = 1 /\ Count(lastFetch.io, "scrape") = 1

\* the feed strategy threw and the fetch returned what the page gave
FallbackAfterThrow ==
    /\ lastFetch.done /\ ~lastFetch.feed.ok /\ lastFetch.page.ok
    /\ Len(lastFetch.result) > 0
    /\ Count(lastFetch.io, "scrape") = 1

\* C14: a fetch whose two strategies fail or find nothing returns the empty
\* sequence, and every request that fetched is answered with a success.
FetchNeverFails ==
    /\ (lastFetch.done /\ ~lastFetch.feed.ok /\ ~lastFetch.page.ok) => lastFetch.result = <<>>
    /\ (lastFetch.done /\ parseFeed(lastFetch.feed.items, 0) = <<>>
          /\ (~lastFetch.page.ok \/ \A n \in 1..Len(lastFetch.page.selectors) :
                                       lastFetch.page.selectors[n] = <<>>)) =>
          lastFetch.result = <<>>
    /\ Did(lastResponse.io, "rss") =>
          /\ lastResponse.status = 200
          /\ lastResponse.body.ticker = lastResponse.cleanTicker

\* both requests failed and the request was answered with the empty result
BothStrategiesFailed ==
    /\ lastFetch.done /\ ~lastFetch.feed.ok /\ ~lastFetch.page.ok
    /\ Did(lastResponse.io, "scrape")
    /\ lastResponse.status = 200
    /\ lastResponse.body.articles = <<>>

\* the first item of the feed with this title
FirstWithTitle(items, title) ==
    items[CHOOSE n \in 1..Len(items) :
             /\ items[n].title = title
             /\ \A m \in 1..(n - 1) : items[m].title # title]

\* C15: no two articles of a fetch result have the same title, and the article
\* kept for a title is the first entry seen with it.
NoDuplicateTitles ==
    lastFetch.done =>
       /\ \A m, n \in 1..Len(lastFetch.result) :
             lastFetch.result[m].title = lastFetch.result[n].title => m = n
       /\ \A n \in 1..Len(lastFetch.result) :
             LET a == lastFetch.result[n] IN
             a.title \in Range(TitlesOf(lastFetch.feed.items)) =>
                a.dateObj = feedArticle(FirstWithTitle(lastFetch.feed.items, a.title),
                                        lastFetch.fedAt).dateObj

\* the publication time of an article, an unparsable date counting as the
\* time of the fetch
Stamp(a) == IF a.dateObj.valid THEN a.dateObj.time ELSE lastFetch.fedAt

\* C16: the articles of a fetch result are in non-increasing order of
\* publication time, a missing or unparsable date counting as now.
NewestFirst ==
    lastFetch.done =>
       \A m, n \in 1..Len(lastFetch.result) :
          m < n => Stamp(lastFetch.result[m]) >= Stamp(lastFetch.result[n])

----------------------------------------------------------------------------
(* Properties of the stages of POST /api/analyze, under FetchSpec *)

\* the stages of a request in the order the handler runs them
Stages == <<"lookup", "rss", "scrape", "summary", "sentiment", "metrics", "write">>
Rank(e) == CHOOSE n \in 1..Len(Stages) : Stages[n] = e
IsStage(e) == e # "replace"

\* the stages of a history are in handler order, none twice
InOrder(io) ==
    LET st == SelectSeq(io, IsStage)
    IN  \A m, n \in 1..Len(st) : m < n => Rank(st[m]) < Rank(st[n])

\* the cache holds a new or changed entry after the step
CacheWritten ==
    \E n \in 1..Len(cache') :
       \/ ~mapHas(cache, cache'[n].key)
       \/ mapGet(cache, cache'[n].key) # cache'[n]

\* C17: the stages of a request run in the order fetch, summary, sentiment,
\* cache write, response: summary and sentiment start only after both fetch
\* requests, the write comes after summary and sentiment whenever articles
\* were found, and the cache is written only in the step that sends the
\* response of a request whose fetch has returned.
StagesInOrder ==
    [][ /\ \A i \in Slots :
              /\ InOrder(req'[i].io)
              /\ ~Did(req'[i].io, "write")
              /\ Did(req'[i].io, "summary") => Did(req'[i].io, "scrape")
              /\ Did(req'[i].io, "sentiment") => Did(req'[i].io, "summary")
        /\ InOrder(lastResponse'.io)
        /\ Did(lastResponse'.io, "write") =>
              /\ Did(lastResponse'.io, "rss") /\ Did(lastResponse'.io, "scrape")
              /\ lastResponse'.body.articles # <<>> =>
                    Did(lastResponse'.io, "summary") /\ Did(lastResponse'.io, "sentiment")
        /\ CacheWritten =>
              /\ Responded
              /\ Did(lastResponse'.io, "write")
              /\ lastResponse'.io[Len(lastResponse'.io)] = "write"
              /\ mapGet(cache', lastResponse'.cleanTicker).data = lastResponse'.body
      ]_vars

\* a request went through every stage
AllStagesRun ==
    /\ SelectSeq(lastResponse.io, IsStage) = Stages
    /\ lastResponse.status = 200

----------------------------------------------------------------------------
(* Properties of the SentimentAnalyzer, under SentimentSpec *)

\* C19: one analyzeArticles call starts at most one training pass and at most
\* two predictions, never rejects, and resolves to the verdict of a
\* prediction or to the neutral zero-confidence verdict carrying the error.
RetryBounded ==
    \A k \in Analyses :
       /\ task[k].trains <= 1
       /\ task[k].predicts <= 2
       /\ task[k].result \in {"none", "verdict", "neutral"}

\* C20: as long as the classifier process answers as designed, starting
\* untrained, at most one training pass is ever started, a finished start-up
\* or analysis has seen exactly one, and every finished analysis has had
\* exactly one successful prediction.
TrainsOnce ==
    ~flaky =>
       /\ trainCalls <= 1
       /\ \A k \in Tasks : task[k].pc = "done" => trainCalls = 1
       /\ \A k \in Analyses : task[k].pc = "done" => task[k].okPredicts = 1

\* C21: once this.metrics is set, getMetrics() answers from it without
\* running the classifier process, and no later step starts a training pass,
\* completes one (line 30 assigns this.metrics again) or changes the cached
\* metrics.
CachedMetricsFinal ==
    [][metrics # Null =>
          /\ metrics' = metrics
          /\ trainCalls' = trainCalls
          /\ \A k \in Tasks : task'[k].pc = "metrics" => task[k].pc = "metrics"
          /\ ~(\E k \in Tasks : TrainDone(k, "success"))
      ]_vars

----------------------------------------------------------------------------
(* Properties of analyzeArticles over article lists, under AnalysisSpec *)

EarlyErrors == {"No articles to analyze", "No text content found"}

\* C22: analyzeArticles called with no articles, or with articles none of
\* which has text (title plus the first 200 characters of the description,
\* trimmed), returns the neutral verdict with confidence 0 and an error flag
\* saying which, and starts no prediction and no training pass.
NoTextNoClassifier ==
    [][\A articles \in ArticleInputs :
          (AnalyzeArticlesOf(1, articles)
             /\ \A n \in 1..Len(articles) : textOf(articles[n]) = <<>>)
          => /\ task'[1].result = "neutral"
             /\ task'[1].error = (IF articles = <<>> THEN "No articles to analyze"
                                  ELSE "No text content found")
             /\ task'[1].predicts = 0 /\ task'[1].trains = 0
             /\ task'[1].pc \in {"done", "metrics"}
             /\ trainCalls' = trainCalls
      ]_vars

\* an analysis of articles without text has returned, with no prediction made
ReturnedWithoutText ==
    /\ task[1].error = "No text content found"
    /\ task[1].result = "neutral"
    /\ task[1].predicts = 0

----------------------------------------------------------------------------
(* Properties of the summary generator, under FetchSpec *)

\* a summary, given as the pieces it is concatenated from, is a non-empty string
NonEmptyText(s) == \E n \in 1..Len(s) : s[n] # ""

\* C23: summarizeArticlesWithAI always resolves to a non-empty string,
\* however the external summarization call settles (it throws, or answers
\* with nothing, with an empty text or in an unexpected format), and when the
\* call fails it resolves to exactly generateFastSummary(articles); the
\* handler goes on to the sentiment stage with that summary.
AISummaryNeverFails ==
    [][\A out \in AIResponses :
          SummaryDone(1, out)
          => /\ NonEmptyText(req'[1].summary)
             /\ out.shape = "throws" => req'[1].summary = generateFastSummary(req[1].articles)
             /\ req'[1].pc = "sentiment"
             /\ lastResponse' = lastResponse
      ]_vars

\* a request was answered with the fast summary although the AI path was
\* taken: the external call had been made and failed
AnsweredAfterFailedAICall ==
    /\ useAISummary
    /\ lastResponse.status = 200
    /\ Len(lastResponse.body.articles) > 0
    /\ callsExternalSummary(lastResponse.body.articles)
    /\ lastResponse.body.summary = generateFastSummary(lastResponse.body.articles)

----------------------------------------------------------------------------
(* Properties of the clipboard watcher, under WatchSpec *)

\* this step is a dispatch of the watcher to tickerAnalyzer.analyze
Dispatches == lastDispatch'.n = lastDispatch.n + 1

\* C25: more than 2000 ms lie between any two consecutive dispatches of the
\* watcher, whatever the clipboard does and however watch mode is toggled.
DispatchesDebounced ==
    [][(Dispatches /\ lastDispatch.n > 0) => lastDispatch'.at - lastDispatch.at > DEBOUNCE]_vars

\* C26: the watcher never dispatches the ticker it dispatched last: between
\* two dispatches of one ticker there is a dispatch of another.
NoRepeatedTicker ==
    [][(Dispatches /\ lastDispatch.n > 0) => lastDispatch'.ticker # lastDispatch.ticker]_vars

\* C27: while the clipboard holds one text, the watcher dispatches at most
\* once; a poll that reads the text it sampled last dispatches nothing; and
\* a poll that finds a new text that is a valid ticker, with the latest
\* dispatch more than 2000 ms back or none so far, dispatches exactly that
\* ticker, once.
OneDispatchPerCopy ==
    /\ [](sinceCopy <= 1)
    /\ [][(trim(clipboard) = lastClipboardText) => ~Dispatches]_vars
    /\ [][(/\ Poll
           /\ trim(clipboard) # lastClipboardText
           /\ isValidTicker(trim(clipboard))
           /\ lastDispatch.n > 0 => DateNow - lastDispatch.at > DEBOUNCE)
          => /\ Dispatches
             /\ nextSid' = nextSid + 1
             /\ lastDispatch'.ticker = tickerOf(clipboard)
             /\ lastClipboardText' = trim(clipboard)
      ]_vars

\* the watcher dispatched MSFT once and has since polled the unchanged
\* clipboard for more than the debounce interval
SameTickerPolledAgain ==
    /\ clipboard = <<"M", "S", "F", "T">>
    /\ lastDispatch.ticker = <<"M", "S", "F", "T">>
    /\ sinceCopy = 1
    /\ clipboardMonitor # Null
    /\ DateNow - lastDispatch.at > DEBOUNCE

\* C28: only the poll callback writes the watcher's last-seen sample and its
\* debounce timestamp: once the watcher has dispatched, turning watch mode
\* off and on again leaves both as they were.
WatcherStateSurvivesRestart ==
    [][(ToggleWatchMode /\ lastDispatch.n > 0) =>
          /\ lastClipboardText' = lastClipboardText
          /\ lastProcessTime' = lastProcessTime
      ]_vars

----------------------------------------------------------------------------
(* Properties of generateFastSummary, under SummarySpec, and of
   extractTickers, under ExtractSpec *)

Applied(fn) == lastCall.fn = fn /\ lastCall.done

\* C24: generateFastSummary returns a non-empty string for every article
\* list: the fixed no-news message for no articles, and otherwise one
\* sentence that holds the titles of the first three articles, in their
\* order, between a fixed opening and a fixed ending.
FastSummaryNeverEmpty ==
    Applied("generateFastSummary") =>
       LET articles == lastCall.input
           out == lastCall.output
           shown == IF Len(articles) < 3 THEN Len(articles) ELSE 3
       IN  /\ NonEmptyText(out)
           /\ Len(articles) = 0 => out = <<"No recent news articles found for this ticker.">>
           /\ Len(articles) > 0 =>
                 /\ Len(out) = shown + 2
                 /\ out[1] = "Recent news highlights: "
                 /\ \A n \in 1..shown : out[n + 1] = articles[n].title
                 /\ out[Len(out)] = ". Check the articles below for more details."

\* the summary of four articles, two of them with an empty title, was made
SummaryOfFour ==
    /\ Applied("generateFastSummary")
    /\ Len(lastCall.input) = 4
    /\ lastCall.input[1].title = "" /\ lastCall.input[2].title = ""
    /\ lastCall.input[3].title = "Stock falls"

\* [A-Z]{1,5}(\.[A-Z])?
TickerShape(t) ==
    \/ Len(t) \in 1..5 /\ \A n \in 1..Len(t) : IsUpperLetter(t[n])
    \/ /\ Len(t) \in 3..7
       /\ \A n \in 1..(Len(t) - 2) : IsUpperLetter(t[n])
       /\ t[Len(t) - 1] = "." /\ IsUpperLetter(t[Len(t)])

\* the tokens occur in the text from position i on, one after the other
RECURSIVE OccurInOrder(_, _, _)
OccurInOrder(tokens, text, i) ==
    \/ tokens = <<>>
    \/ \E j \in i..(Len(text) - Len(Head(tokens)) + 1) :
          /\ SubSeq(text, j, j + Len(Head(tokens)) - 1) = Head(tokens)
          /\ OccurInOrder(Tail(tokens), text, j + Len(Head(tokens)))

\* the words of a text: its maximal runs of characters other than blanks
RECURSIVE Words(_)
Words(text) ==
    IF text = <<>> THEN <<>>
    ELSE IF Head(text) \in WhiteSpace THEN Words(Tail(text))
    ELSE LET ends == {n \in 1..Len(text) : n = Len(text) \/ text[n + 1] \in WhiteSpace}
             end == CHOOSE n \in ends : \A k \in ends : n <= k
         IN  <<SubSeq(text, 1, end)>> \o Words(SubSeq(text, end + 1, Len(text)))

\* C29: extractTickers returns tokens of the ticker shape that satisfy
\* isValidTicker, in the order in which they occur in the text; a text that
\* is empty or blank, or that is a single word of more than 5 letters or of
\* letters and digits mixed, gives no token; and a text made of words of 1
\* to 5 capital letters gives exactly its words, repeated ones included.
ExtractsTickerTokens ==
    Applied("extractTickers") =>
       LET text == lastCall.input
           out == lastCall.output
           words == Words(text)
           letters(w) == \A n \in 1..Len(w) : w[n] \in Range(Upper) \cup Range(Lower)
           alnum(w) == \A n \in 1..Len(w) : w[n] \in Range(Upper) \cup Range(Lower) \cup Digits
       IN  /\ \A n \in 1..Len(out) : TickerShape(out[n]) /\ isValidTicker(out[n])
           /\ OccurInOrder(out, text, 1)
           /\ words = <<>> => out = <<>>
           /\ (Len(words) = 1 /\ letters(words[1]) /\ Len(words[1]) > 5) => out = <<>>
           /\ (Len(words) = 1 /\ alnum(words[1]) /\ ~letters(words[1])) => out = <<>>
           /\ (\A n \in 1..Len(words) : Len(words[n]) <= 5 /\ TickerShape(words[n]))
                 => out = words

\* a text with the same ticker twice gave both occurrences
RepeatedTickerExtracted ==
    /\ Applied("extractTickers")
    /\ lastCall.input = <<"A", "A", "P", "L", " ", "A", "A", "P", "L">>
    /\ lastCall.output = << <<"A", "A", "P", "L">>, <<"A", "A", "P", "L">> >>

\* C30: extractTickers gives for a text what it gives for the text in
\* capital letters.
ExtractIgnoresCase ==
    Applied("extractTickers") => lastCall.output = extractTickers(toUpperCase(lastCall.input))

----------------------------------------------------------------------------
(* Overlapping requests and the sweep, under ServerSpec *)

EntriesFor(c, k) == {n \in 1..Len(c) : c[n].key = k}

\* C31: requests for one ticker are not single-flight: two of them can both
\* miss the cache and both fetch. Whenever a request then writes its result,
\* the cache holds exactly one entry for the ticker, the result just written;
\* a write that finds an entry although its own lookup missed comes from a
\* request that fetched while another one did, and it replaces that entry.
RedundantFetchesOneEntry ==
    [][ (Responded /\ Did(lastResponse'.io, "write")) =>
           LET k == lastResponse'.cleanTicker IN
           /\ Cardinality(EntriesFor(cache', k)) = 1
           /\ mapGet(cache', k).data = lastResponse'.body
           /\ Did(lastResponse'.io, "replace") =>
                 /\ Did(lastResponse'.io, "rss")
                 /\ Len(cache') = Len(cache)
      ]_vars

\* two requests for the same ticker both missed the cache and fetched; both
\* have finished and the cache holds the one entry written last
BothFetchedOneEntryLeft ==
    /\ nreq = 2
    /\ \A i \in Slots : req[i].pc = "idle"
    /\ Did(lastResponse.io, "rss") /\ Did(lastResponse.io, "replace")
    /\ Cardinality(EntriesFor(cache, lastResponse.cleanTicker)) = 1
    /\ mapGet(cache, lastResponse.cleanTicker).data = lastResponse.body
    /\ mapGet(cache, lastResponse.cleanTicker).timestamp = now

\* C32: a sweep removes every entry of age >= TTL and keeps every younger
\* entry as it is, timestamp included and in the same order, so that right
\* after it no entry of the cache is expired.
SweepRemovesExpired ==
    [][ Sweep =>
           /\ \A n \in 1..Len(cache) :
                 IF now - cache[n].timestamp >= CACHE_TTL
                 THEN ~mapHas(cache', cache[n].key)
                 ELSE mapHas(cache', cache[n].key) /\ mapGet(cache', cache[n].key) = cache[n]
           /\ \A m \in 1..Len(cache') :
                 /\ now - cache'[m].timestamp < CACHE_TTL
                 /\ \E n \in 1..Len(cache) : cache[n] = cache'[m]
           /\ \A m1, m2 \in 1..Len(cache') :
                 m1 < m2 => \E n1, n2 \in 1..Len(cache) :
                               n1 < n2 /\ cache[n1] = cache'[m1] /\ cache[n2] = cache'[m2]
      ]_vars

\* the only request so far stored its result, the result reached the age of
\* the TTL, and a sweep has removed it
SweptAway ==
    /\ nreq = 1
    /\ \A i \in Slots : req[i].pc = "idle"
    /\ Did(lastResponse.io, "write")
    /\ ~mapHas(cache, lastResponse.cleanTicker)
    /\ now = CACHE_TTL

----------------------------------------------------------------------------
(* Callbacks and liveness of the TickerAnalyzer, under QueueSpec *)

\* C33: callbacks are invoked only when a dispatched request ends, and then
\* exactly one of them, once: onAnalysisComplete with the uppercased ticker
\* when the backend answered with data, onError for an error field, a refused
\* connection, a timeout or any other failure. Queueing a ticker, starting a
\* request and the passing of time invoke no callback.
OneCallbackPerDispatch ==
    [][ lastDone' # lastDone =>
           \E k \in 1..Len(inFlight) :
              /\ inFlight[k].sid = lastDone'.sid
              /\ ~(\E j \in 1..Len(inFlight') : inFlight'[j].sid = lastDone'.sid)
              /\ Len(lastDone'.callbacks) = 1
              /\ LET c == lastDone'.callbacks[1] IN
                 IF lastDone'.outcome = "data"
                 THEN /\ c.cb = "onAnalysisComplete"
                      /\ c.arg = inFlight[k].ticker
                      /\ \E t \in AnalyzeInputs : c.arg = toUpperCase(trim(t))
                 ELSE c.cb = "onError"
      ]_vars

\* a request for a ticker that had been queued ended in a timeout and onError
\* was invoked for it
QueuedTickerFailed ==
    /\ lastDone.outcome = "ETIMEDOUT"
    /\ lastDone.sid > 1
    /\ \E n \in 1..Len(started) : started[n] = lastDone.sid /\ n > 1
    /\ lastDone.callbacks = <<[cb |-> "onError", arg |-> "ETIMEDOUT"]>>

----------------------------------------------------------------------------
(* Properties of the ClickDetector, under ClickSpec *)

\* C34: the callback is invoked only with the first ticker extracted from the
\* text that _processText was given; two consecutive invocations carry
\* different tickers and are at least debounceDelay apart; and lastClickTime
\* and lastProcessedTicker change only in a step that invokes the callback.
DebouncedFirstTicker ==
    /\ [][lastInvoke' # lastInvoke =>
            /\ extractTickers(lastInvoke'.text) # <<>>
            /\ lastInvoke'.ticker = extractTickers(lastInvoke'.text)[1]]_vars
    /\ [](prevInvoke.n > 0 =>
            /\ lastInvoke.ticker # prevInvoke.ticker
            /\ lastInvoke.at - prevInvoke.at >= debounceDelay)
    /\ [][<<lastClickTime, lastProcessedTicker>>' # <<lastClickTime, lastProcessedTicker>>
            => lastInvoke'.n = lastInvoke.n + 1]_vars

\* C34 witness: the callback was invoked twice, the second time with the first
\* of the two tickers of a text.
InvokedTwice ==
    /\ prevInvoke.n > 0
    /\ Len(extractTickers(lastInvoke.text)) = 2
    /\ lastInvoke.ticker = <<"A", "A", "P", "L">>

\* C36: the callback is not invoked while the detector is stopped, that is
\* between a stop() and the next start(), whatever timer or probe was pending
\* when stop() was called.
SilentWhileStopped == lastInvoke.n > 0 => lastInvoke.monitoring

\* C37: no sample of the clipboard is dropped by its timer, at most one probe
\* is in flight, and isExtracting is true exactly while a probe is in flight.
SamplesReachProcessText ==
    /\ lastSample.fate # "dropped"
    /\ probes <= 1
    /\ isExtracting <=> probes = 1

----------------------------------------------------------------------------
(* Liveness of the TickerAnalyzer queue, under DrainSpec *)

\* the places a submission is in: queued, on a drain timer, or requested
Places(sid) ==
    Cardinality({i \in DOMAIN pendingTickers : pendingTickers[i].sid = sid})
    + Cardinality({i \in DOMAIN timers : timers[i].sid = sid})
    + Cardinality({i \in DOMAIN started : started[i] = sid})

----------------------------------------------------------------------------
(* The clipboard watcher's debounce and its timer, under WatchSpec *)

\* the poll is about to see a new, valid ticker inside the debounce window
InsideWindow ==
    /\ trim(clipboard) # <<>>
    /\ trim(clipboard) # trim(lastClipboardText)
    /\ isValidTicker(trim(clipboard))
    /\ DateNow - lastProcessTime <= DEBOUNCE

\* C38: a poll that sees a new valid ticker inside the debounce window
\* records it as the last sample and dispatches nothing; a recorded sample
\* stays recorded while the clipboard keeps its text, and no poll dispatches
\* a recorded sample; a poll changes lastProcessTime only when it dispatches.
DroppedNotDeferred ==
    /\ [][Poll /\ InsideWindow =>
            lastClipboardText' = trim(clipboard) /\ lastDispatch' = lastDispatch]_vars
    /\ [][clipboard' = clipboard /\ lastClipboardText = trim(clipboard) =>
            lastClipboardText' = lastClipboardText]_vars
    /\ [][Poll /\ lastClipboardText = trim(clipboard) => lastDispatch' = lastDispatch]_vars
    /\ [][Poll /\ lastProcessTime' # lastProcessTime =>
            lastDispatch'.n = lastDispatch.n + 1]_vars

\* C38 witness: a valid ticker copied after a dispatch was seen inside the
\* window, and a poll after the end of the window has not dispatched it.
DroppedForGood ==
    /\ lastProcessTime > 0
    /\ clipboardMonitor # Null
    /\ BootTime + clipboardMonitor[1] - POLL_INTERVAL > lastProcessTime + DEBOUNCE
    /\ sinceCopy = 0
    /\ lastClipboardText = trim(clipboard)
    /\ isValidTicker(lastClipboardText)
    /\ lastDispatch.ticker # tickerOf(lastClipboardText)

\* C39: at most one interval of the watcher is live; it is live exactly when
\* watchModeEnabled is true, and it is the one clipboardMonitor holds; a call
\* of startClipboardMonitoring while it is live changes nothing of the watcher.
OnePollTimer ==
    /\ [](pollTimers <= 1)
    /\ [](watchModeEnabled <=> pollTimers = 1)
    /\ [](clipboardMonitor # Null <=> pollTimers = 1)
    /\ [][StartAgain => UNCHANGED watcherVars]_vars

\* C39 witness: watch mode is on again, with a fresh interval, after an
\* earlier interval had dispatched a ticker.
WatchingAgain ==
    /\ watchModeEnabled
    /\ pollTimers = 1
    /\ lastDispatch.n >= 1
    /\ lastProcessTime = 0
    /\ clipboardMonitor[1] >= 3 * POLL_INTERVAL

----------------------------------------------------------------------------
(* The cache under all endpoints of the backend, under EndpointSpec *)

\* the entries that the step added or replaced
Added == {i \in 1..Len(cache') : \A j \in 1..Len(cache) : cache[j] # cache'[i]}

\* the handler instances that the step ended
Closed == {i \in Slots : req[i].pc # "idle" /\ req'[i].pc = "idle"}

\* the step is a request to /health or to /api/test/:ticker
OtherEndpoint ==
    /\ Received
    /\ req' = req
    /\ lastResponse'.io # <<>>
    /\ lastResponse'.io[1] \in {"health", "test"}

\* the step answers a request to /api/analyze
Answered == Closed # {} \/ (Received /\ Opened = {} /\ ~OtherEndpoint)

\* the order of the stages of a handler instance
StageOf(pc) == IF pc = "idle" THEN 0 ELSE Rank(pc)

\* C40: the key of every entry is the ticker of its result; an entry is added
\* or replaced only in the step that answers an analysis with status 200 and
\* that result; a step that answers with 400 or 500, /health and
\* /api/test/:ticker leave the cache as it is; and a request to /api/analyze
\* is answered exactly once: a step starts or ends at most one handler
\* instance, an instance ends with the response to its request, and until
\* then it only moves forward through its stages.
CacheOnlyFromAnalyses ==
    /\ [](\A i \in 1..Len(cache) : cache[i].key = cache[i].data.ticker)
    /\ [][\A i \in Added :
            /\ Answered
            /\ lastResponse'.status = 200
            /\ lastResponse'.cleanTicker = cache'[i].key
            /\ lastResponse'.body = cache'[i].data]_vars
    /\ [][(Answered /\ lastResponse'.status \in {400, 500}) \/ OtherEndpoint
            => cache' = cache]_vars
    /\ [][/\ Cardinality(Closed) + Cardinality(Opened) <= 1
          /\ Received /\ ~OtherEndpoint /\ Opened = {} =>
                lastResponse'.status \in {200, 400, 500}
          /\ \A i \in Closed :
                /\ lastResponse'.raw = req[i].raw
                /\ lastResponse'.status \in {200, 400, 500}
          /\ \A i \in Slots :
                req'[i] # req[i] => i \in Closed \/ StageOf(req'[i].pc) > StageOf(req[i].pc)]_vars

\* C40 witness: the test endpoint has answered with articles of a ticker whose
\* analysis is cached, and the entry is the one the analysis wrote.
TestedBesideCache ==
    /\ lastResponse.io # <<>>
    /\ lastResponse.io[1] = "test"
    /\ lastResponse.body.articleCount > 0
    /\ Len(cache) = 1
    /\ cache[1].key = lastResponse.body.ticker
    /\ cache[1].data.articles # <<>>

====
